---- MODULE Spec2Model ----
(***************************************************************************)
(* A model of the Timeless Admin Utility (SillyTavern-Admin-Utility):      *)
(* the batch runner (src/backup.js, second half: batch.js), the snapshot   *)
(* helpers (src/backup.js), and the modules that drive them over a         *)
(* filesystem of per-user directories.                                     *)
(***************************************************************************)
EXTENDS Integers, Sequences, FiniteSets, TLC

VARIABLES
    pc,        \* where the program is: "menu", "batch" (inside batchOperation's loop)
    job,       \* the unit-operation closure handed to batchOperation (its captured parameters)
    users,     \* batchOperation's `users` argument
    idx,       \* 1-based position of the for..of loop over `users`
    inflight,  \* operationFn(handle) has been called and is awaited
    pending,   \* how the awaited call settles (return value or thrown error)
    results,   \* batchOperation's `results` object
    ret,       \* how the last batchOperation call ended: "none", "returned", "threw"
    calls,     \* history: the handles operationFn was invoked with, in order
    hist,      \* history: each settled call, its handle and its outcome
    fs,        \* the filesystem: path -> entry (file, symbolic link or directory)
    now,       \* the wall clock, in seconds (what timestamp() reads)
    dryRun,    \* config.dryRun
    nops,      \* how many module runs the operator has started
    edIndex,   \* the scaffold editor's in-memory `index`
    returned,  \* the value the last direct call of a backup.js function returned
    trace,     \* history: the filesystem calls and Snapshot Store calls of the last step
    fs0,       \* history: the filesystem when the current batch began
    env,       \* history: the clock and the fault the call in flight ran under
    warned,    \* the filenames the symlink module's last run printed a conflict warning for
    mem,       \* the JavaScript heap of a library call: objects by address, and the call made
    dialog     \* the prompts of the module run in progress: the prompt open, what was
               \* collected, and whether a prompt has returned the cancel symbol

batchVars == <<pc, job, users, idx, inflight, pending, results, ret, calls, hist>>

fsVars == <<fs, now, dryRun, nops, edIndex, returned, trace, fs0, env>>

libVars == <<warned, mem, dialog>>

vars == <<batchVars, fsVars, libVars>>

(***************************************************************************)
(* Sequence helpers.                                                       *)
(***************************************************************************)
Range(s) == {s[i] : i \in DOMAIN s}

NoDup(s) == \A i, j \in DOMAIN s : i # j => s[i] # s[j]

RECURSIVE MapHandle(_)
MapHandle(s) == IF s = <<>> THEN <<>> ELSE <<Head(s).handle>> \o MapHandle(Tail(s))

\* All duplicate-free sequences over the set S.
RECURSIVE Perms(_)
Perms(S) ==
    IF S = {} THEN {<<>>}
    ELSE {<<>>} \cup UNION {{<<x>> \o p : p \in Perms(S \ {x})} : x \in S}

(***************************************************************************)
(* JSON values, as JSON.parse builds them.  t is the type; s the text of a *)
(* scalar; kids the members of an object (key k, value v, in insertion     *)
(* order) or the elements of an array (k = "").                            *)
(***************************************************************************)
JNull == [t |-> "null", s |-> "", kids |-> <<>>]
JStr(str) == [t |-> "str", s |-> str, kids |-> <<>>]
JNum(digits) == [t |-> "num", s |-> digits, kids |-> <<>>]
JObj(members) == [t |-> "obj", s |-> "", kids |-> members]
JArr(elems) == [t |-> "arr", s |-> "", kids |-> elems]
Member(key, val) == [k |-> key, v |-> val]
Elem(val) == [k |-> "", v |-> val]

\* `undefined`: what a lookup of a missing property yields.
Undefined == [t |-> "undefined", s |-> "", kids |-> <<>>]

\* typeof x === 'object' && x !== null (lodash's isObject, for parsed JSON).
isObject(val) == val.t \in {"obj", "arr"}

HasKey(val, key) == val.t = "obj" /\ \E i \in DOMAIN val.kids : val.kids[i].k = key

\* val[key] for an own property of an object.
Prop(val, key) ==
    IF HasKey(val, key)
    THEN val.kids[CHOOSE i \in DOMAIN val.kids : val.kids[i].k = key].v
    ELSE Undefined

\* val[key] = child: an existing key keeps its place, a new key goes last.
\* (A string key set on an array is a property JSON.stringify never writes.)
Assign(val, key, child) ==
    IF val.t # "obj" THEN val
    ELSE IF HasKey(val, key)
    THEN [val EXCEPT !.kids =
             [i \in DOMAIN val.kids |->
                 IF val.kids[i].k = key THEN Member(key, child) ELSE val.kids[i]]]
    ELSE [val EXCEPT !.kids = Append(@, Member(key, child))]

\* lodash.get(object, path, defaultValue), path already split at the dots.
RECURSIVE lodashGet(_, _, _)
lodashGet(val, path, default) ==
    IF path = <<>> THEN (IF val.t = "undefined" THEN default ELSE val)
    ELSE IF ~isObject(val) THEN default
    ELSE lodashGet(Prop(val, Head(path)), Tail(path), default)

\* lodash.set(object, path, value): walks the path, replacing every
\* intermediate value that is not an object by {}, and assigns the last key.
RECURSIVE lodashSet(_, _, _)
lodashSet(val, path, newv) ==
    IF ~isObject(val) \/ path = <<>> THEN val
    ELSE IF Len(path) = 1 THEN Assign(val, Head(path), newv)
    ELSE LET cur == Prop(val, Head(path))
             nested == IF isObject(cur) THEN cur ELSE JObj(<<>>)
         IN Assign(val, Head(path), lodashSet(nested, Tail(path), newv))

(***************************************************************************)
(* json-merge.js                                                           *)
(***************************************************************************)
\* applyMutations, lines 13-21: clone, then lodash.set per mutation in order.
RECURSIVE applyMutations(_, _)
applyMutations(original, mutations) ==
    IF mutations = <<>> THEN original
    ELSE applyMutations(lodashSet(original, Head(mutations).path, Head(mutations).value),
                        Tail(mutations))

\* syncSections, lines 32-43: per key, copy the template's value when defined.
RECURSIVE syncSections(_, _, _)
syncSections(target, template, keys) ==
    IF keys = <<>> THEN target
    ELSE LET templateValue == lodashGet(template, Head(keys), Undefined)
             next == IF templateValue.t # "undefined"
                     THEN lodashSet(target, Head(keys), templateValue)
                     ELSE target
         IN syncSections(next, template, Tail(keys))

(***************************************************************************)
(* Files.  A file's content is text: json says whether JSON.parse accepts  *)
(* it, v is the value it parses to (for other text, the text as a string). *)
(***************************************************************************)
JsonText(val) == [json |-> TRUE, v |-> val]      \* JSON.stringify(val, null, 2) + '\n'
RawText(str) == [json |-> FALSE, v |-> JStr(str)]
NoText == RawText("")

NoPath == <<>>

File(content) == [k |-> "file", c |-> content, to |-> NoPath]
Link(target) == [k |-> "link", c |-> NoText, to |-> target]
Dir == [k |-> "dir", c |-> NoText, to |-> NoPath]

\* node:path
join(a, b) == a \o b
basename(p) == p[Len(p)]
dirname(p) == SubSeq(p, 1, Len(p) - 1)
Ancestors(p) == {SubSeq(p, 1, n) : n \in 1..Len(p)}
Beneath(p, dir) == Len(p) > Len(dir) /\ SubSeq(p, 1, Len(dir)) = dir

\* lstat succeeds: something is at the path itself (a dangling link included).
lstatExists(f, p) == p \in DOMAIN f

isSymbolicLink(f, p) == lstatExists(f, p) /\ f[p].k = "link"

\* Where a path leads after following symbolic links; NoPath when it leads
\* nowhere (missing, dangling, or a loop of links).
RECURSIVE Follow(_, _, _)
Follow(f, p, seen) ==
    IF p \notin DOMAIN f \/ p \in seen THEN NoPath
    ELSE IF f[p].k = "link" THEN Follow(f, f[p].to, seen \cup {p})
    ELSE p

\* fs.existsSync follows symbolic links.
existsSync(f, p) == Follow(f, p, {}) # NoPath

\* What a read of the path returns (the path exists).
ReadText(f, p) == f[Follow(f, p, {})].c

(***************************************************************************)
(* A world threads the effects of one synchronous piece of code:           *)
(*   fs   the filesystem so far;                                           *)
(*   err  "" or the message of the Error thrown (later calls do nothing);  *)
(*   k    the environment's fault: the k-th mutating filesystem call       *)
(*        throws EACCES (0: none does);                                    *)
(*   tr   the mutating calls made and the Snapshot Store calls, in order;  *)
(*   val  the value returned by the last function called;                  *)
(*   out, why  what the unit-operation returns: 'success', or              *)
(*        { skipped: why } when out = "skipped".                           *)
(***************************************************************************)
World(f, fault) ==
    [fs |-> f, err |-> "", k |-> fault, tr |-> <<>>, val |-> NoPath, out |-> "success", why |-> ""]

\* was: what the path held before the call ("none", "file", "link", "dir").
Event(op, p, was) == [op |-> op, path |-> p, was |-> was]

Kind(f, p) == IF p \in DOMAIN f THEN f[p].k ELSE "none"

Throw(w, message) == IF w.err # "" THEN w ELSE [w EXCEPT !.err = message]

Return(w, value) == [w EXCEPT !.val = value]

\* One mutating filesystem call: fails by the fault, or by `refused` (the
\* call's own error), or replaces the filesystem by `after`.
Syscall(w, op, p, refused, after) ==
    IF w.err # "" THEN w
    ELSE IF w.k = 1 THEN [w EXCEPT !.err = "EACCES: permission denied", !.k = 0]
    ELSE IF refused # "" THEN [w EXCEPT !.err = refused, !.k = IF @ > 1 THEN @ - 1 ELSE 0]
    ELSE [w EXCEPT !.fs = after,
                   !.k = IF @ > 1 THEN @ - 1 ELSE 0,
                   !.tr = Append(@, Event(op, p, Kind(w.fs, p)))]

Put(f, p, entry) == [q \in DOMAIN f \cup {p} |-> IF q = p THEN entry ELSE f[q]]
Remove(f, p) == [q \in DOMAIN f \ {p} |-> f[q]]

\* fs.mkdirSync(p, { recursive: true }): creates p and its missing ancestors.
mkdirSync(w, p) ==
    Syscall(w, "mkdir", p,
            IF \E a \in Ancestors(p) : lstatExists(w.fs, a) /\ w.fs[a].k # "dir"
            THEN "ENOTDIR: not a directory" ELSE "",
            [q \in DOMAIN w.fs \cup Ancestors(p) |->
                IF q \in DOMAIN w.fs THEN w.fs[q] ELSE Dir])

\* Where a write to p lands: on the file a link at p leads to.
RECURSIVE WriteTarget(_, _, _)
WriteTarget(f, p, seen) ==
    IF p \in DOMAIN f /\ f[p].k = "link" /\ p \notin seen
    THEN WriteTarget(f, f[p].to, seen \cup {p})
    ELSE p

WriteRefused(f, p) ==
    LET t == WriteTarget(f, p, {})
    IN IF t \in DOMAIN f /\ f[t].k = "link" THEN "ELOOP: too many symbolic links"
       ELSE IF t \in DOMAIN f /\ f[t].k = "dir" THEN "EISDIR: illegal operation on a directory"
       ELSE IF ~(dirname(t) \in DOMAIN f /\ f[dirname(t)].k = "dir")
       THEN "ENOENT: no such file or directory"
       ELSE ""

\* fs.writeFileSync(p, text): creates or overwrites.
writeFileSync(w, p, text) ==
    Syscall(w, "write", WriteTarget(w.fs, p, {}), WriteRefused(w.fs, p),
            Put(w.fs, WriteTarget(w.fs, p, {}), File(text)))

\* fs.copyFileSync(src, dest): overwrites dest by default.
copyFileSync(w, src, dest) ==
    Syscall(w, "write", WriteTarget(w.fs, dest, {}),
            IF ~existsSync(w.fs, src) \/ w.fs[Follow(w.fs, src, {})].k # "file"
            THEN "ENOENT: no such file or directory"
            ELSE WriteRefused(w.fs, dest),
            Put(w.fs, WriteTarget(w.fs, dest, {}),
                File(IF existsSync(w.fs, src) THEN ReadText(w.fs, src) ELSE NoText)))

\* fs.unlinkSync(p): removes the entry at p itself (a link, not its target).
unlinkSync(w, p) ==
    Syscall(w, "unlink", p,
            IF ~lstatExists(w.fs, p) THEN "ENOENT: no such file or directory"
            ELSE IF w.fs[p].k = "dir" THEN "EISDIR: illegal operation on a directory"
            ELSE "",
            Remove(w.fs, p))

\* fs.symlinkSync(target, p).
symlinkSync(w, target, p) ==
    Syscall(w, "symlink", p,
            IF lstatExists(w.fs, p) THEN "EEXIST: file already exists"
            ELSE IF ~(dirname(p) \in DOMAIN w.fs /\ w.fs[dirname(p)].k = "dir")
            THEN "ENOENT: no such file or directory"
            ELSE "",
            Put(w.fs, p, Link(target)))

\* JSON.parse(fs.readFileSync(p)): the value, or a SyntaxError.
ParseFile(w, p) ==
    IF w.err # "" THEN w
    ELSE IF ~ReadText(w.fs, p).json
    THEN Throw(w, "Unexpected token in JSON")
    ELSE Return(w, ReadText(w.fs, p).v)

(***************************************************************************)
(* backup.js                                                               *)
(***************************************************************************)
\* timestamp, lines 9-11: the clock to the second, as text.
timestamp(t) == ToString(t)

\* A variant whose name does not carry the time.
BackupNameWithoutTime(filePath, t) == basename(filePath) \o ".bak"

\* backupFile, line 24: the snapshot's name.
BackupName(filePath, t) == basename(filePath) \o "." \o timestamp(t) \o ".bak"

\* A variant that prepares the destination before looking at the source.
backupFileMkdirFirst(w, filePath, backupDir, t) ==
    LET w1 == mkdirSync(w, backupDir)
        backupPath == join(backupDir, <<BackupName(filePath, t)>>)
    IN IF ~existsSync(w1.fs, filePath) THEN Return(w1, NoPath)
       ELSE Return(copyFileSync(w1, filePath, backupPath), backupPath)

\* backupFile, lines 19-31.
backupFile(w, filePath, backupDir, t) ==
    IF ~existsSync(w.fs, filePath) THEN Return(w, NoPath)
    ELSE LET backupPath == join(backupDir, <<BackupName(filePath, t)>>)
         IN Return(copyFileSync(mkdirSync(w, backupDir), filePath, backupPath), backupPath)

\* A call of the Snapshot Store on a source file.
Snapshot(w, source) ==
    IF w.err # "" THEN w
    ELSE [w EXCEPT !.tr = Append(@, Event("snapshot", source, Kind(w.fs, source)))]

SnapshotArea(root, handle) == join(root, <<handle, "backups", "admin-snapshots">>)

\* A variant that does not look at its dryRun parameter.
backupUserFileIgnoresDryRun(w, root, handle, relativeFilePath, dry, t) ==
    LET source == join(root, <<handle>> \o relativeFilePath)
        w1 == Snapshot(w, source)
    IN IF ~existsSync(w1.fs, source) THEN Return(w1, NoPath)
       ELSE backupFile(w1, source, SnapshotArea(root, handle), t)

\* backupUserFile, lines 41-55.
backupUserFile(w, root, handle, relativeFilePath, dry, t) ==
    LET source == join(root, <<handle>> \o relativeFilePath)
        backupDir == SnapshotArea(root, handle)
        w1 == Snapshot(w, source)
    IN IF ~existsSync(w1.fs, source) THEN Return(w1, NoPath)
       ELSE IF dry THEN Return(w1, NoPath)
       ELSE backupFile(w1, source, backupDir, t)

\* backupToAdmin, lines 65-74.
backupToAdmin(w, root, filePath, label, dry, t) ==
    LET dir == join(root, <<label \o "-" \o timestamp(t)>>)
        w1 == Snapshot(w, filePath)
    IN IF dry THEN Return(w1, NoPath)
       ELSE backupFile(w1, filePath, dir, t)

(***************************************************************************)
(* batchOperation (batch.js): outcomes of one awaited operationFn call.    *)
(*   k = "return": the promise resolved with a value; obj says whether the *)
(*       value is an object, skipped is its `skipped` property ("" when    *)
(*       absent or empty: both are falsy in line 124's test).              *)
(*   k = "throw":  the promise rejected with an Error whose message is msg.*)
(***************************************************************************)
Returned(isObj, skippedReason) ==
    [k |-> "return", obj |-> isObj, skipped |-> skippedReason, msg |-> ""]

Threw(message) ==
    [k |-> "throw", obj |-> FALSE, skipped |-> "", msg |-> message]

Success == Returned(FALSE, "")          \* the string 'success'
Skip(reason) == Returned(TRUE, reason)  \* { skipped: reason }

NoOutcome == Returned(FALSE, "")

EmptyResults == [success |-> <<>>, skipped |-> <<>>, failed |-> <<>>]

\* A unit-operation closure: its kind and the variables it captured.
NoJob ==
    [kind |-> "none", source |-> NoPath, filename |-> "", policy |-> "", backupFirst |-> FALSE,
     mutations |-> <<>>, keys |-> <<>>, key |-> NoPath, name |-> "", template |-> JNull,
     entry |-> JNull, file |-> "", subDir |-> "", dir |-> NoPath, dry |-> FALSE]

NoEnv == [k |-> 0, t |-> 0]

\* Lines 124-128: the classification of a resolved value.
ClassifyDropsEmptyReason(res, handle, o) ==
    IF o.obj
    THEN [res EXCEPT !.skipped = Append(@, [handle |-> handle, reason |-> o.skipped])]
    ELSE [res EXCEPT !.success = Append(@, handle)]

Classify(res, handle, o) ==
    IF o.obj /\ o.skipped # ""
    THEN [res EXCEPT !.skipped = Append(@, [handle |-> handle, reason |-> o.skipped])]
    ELSE [res EXCEPT !.success = Append(@, handle)]

\* Lines 122-131: try { await; classify } catch (err) { failed.push }.
\* esc: an exception leaves the try statement.
TryCatchNoCatch(res, handle, o) ==
    IF o.k = "throw"
    THEN [res |-> res, esc |-> TRUE]
    ELSE [res |-> Classify(res, handle, o), esc |-> FALSE]

TryCatch(res, handle, o) ==
    IF o.k = "throw"
    THEN [res |-> [res EXCEPT !.failed = Append(@, [handle |-> handle, error |-> o.msg])],
          esc |-> FALSE]
    ELSE [res |-> Classify(res, handle, o), esc |-> FALSE]

\* Line 123: `await` suspends the loop until the call in flight has settled.
AwaitNotAwaited == TRUE

Await == ~inflight

(***************************************************************************)
(* config.js, lines 12-20 (DEFAULTS), and lib/st-paths.js.                 *)
(***************************************************************************)
dataRoot == <<"data">>
scaffoldDir == <<"data", "default", "scaffold">>
contentDir == <<"data", "default", "content">>
backupRoot == <<"data", "_admin-backups">>
excludeDirs == {"default", "_storage"}

userDir(root, handle) == join(root, <<handle>>)
userCharactersDir(root, handle) == join(root, <<handle, "characters">>)
userWorldsDir(root, handle) == join(root, <<handle, "worlds">>)
userSettingsPath(root, handle) == join(root, <<handle, "settings.json">>)
userContentLogPath(root, handle) == join(root, <<handle, "content.log">>)
cookieSecretPath(root) == join(root, <<"cookie-secret.txt">>)
scaffoldIndexPath(dir) == join(dir, <<"index.json">>)

(***************************************************************************)
(* users.js                                                                *)
(***************************************************************************)
\* The directory names the data root may hold, in sorted order.
Handles == <<"u1", "u2">>

IsUserDir(f, name) ==
    /\ lstatExists(f, join(dataRoot, <<name>>))
    /\ f[join(dataRoot, <<name>>)].k = "dir"
    /\ name \notin excludeDirs

\* discoverUsers: the user directories, sorted.
discoverUsers(f) == SelectSeq(Handles, LAMBDA h : IsUserDir(f, h))

\* selectUsers: all users, or the ones picked (in the order picked).
selectUsers(f) ==
    {discoverUsers(f)} \cup (Perms(Range(discoverUsers(f))) \ {<<>>})

(***************************************************************************)
(* lib/content-index.js                                                    *)
(***************************************************************************)
\* readIndex, lines 9-21: a missing, unparsable or non-array file is [].
readIndex(f, indexPath) ==
    IF ~existsSync(f, indexPath) THEN <<>>
    ELSE IF ~ReadText(f, indexPath).json THEN <<>>
    ELSE IF ReadText(f, indexPath).v.t # "arr" THEN <<>>
    ELSE ReadText(f, indexPath).v.kids

\* writeIndex, lines 28-31.
writeIndex(w, indexPath, entries) ==
    writeFileSync(mkdirSync(w, dirname(indexPath)), indexPath, JsonText(JArr(entries)))

IndexEntry(filename, type) ==
    Elem(JObj(<<Member("filename", JStr(filename)), Member("type", JStr(type))>>))

\* addEntry, lines 39-43.
addEntry(index, entry) ==
    IF \E i \in DOMAIN index : Prop(index[i].v, "filename") = Prop(entry.v, "filename")
    THEN index
    ELSE Append(index, entry)

\* removeEntries, lines 51-53.
removeEntries(index, filenames) ==
    SelectSeq(index, LAMBDA e : Prop(e.v, "filename") \notin {JStr(n) : n \in filenames})

\* { ...e, ...updates }
RECURSIVE Spread(_, _)
Spread(e, updates) ==
    IF updates = <<>> THEN e
    ELSE Spread(Assign(e, Head(updates).k, Head(updates).v), Tail(updates))

\* updateEntry, lines 62-69.
updateEntry(index, filename, updates) ==
    [i \in DOMAIN index |->
        IF Prop(index[i].v, "filename") = JStr(filename)
        THEN Elem(Spread(index[i].v, updates))
        ELSE index[i]]

(***************************************************************************)
(* modules/bulk-settings.js                                                *)
(***************************************************************************)
Skipped(w, reason) == [w EXCEPT !.out = "skipped", !.why = reason]

\* writeSettings, lines 28-30.
writeSettings(w, path, settings) == writeFileSync(w, path, JsonText(settings))

ArrayOrEmpty(val) == IF val.t = "arr" THEN val.kids ELSE <<>>

\* The document each mode writes back.
\* setKeyValues, line 105.
EditKeys(settings, j) == applyMutations(settings, j.mutations)

\* syncFromTemplate, line 184.
EditTemplate(settings, j) == syncSections(settings, j.template, j.keys)

\* linkLorebook, lines 238-247.
EditLorebook(settings, j) ==
    LET list == ArrayOrEmpty(lodashGet(settings, j.key, JArr(<<>>)))
        added == IF \E i \in DOMAIN list : list[i].v = JStr(j.name)
                 THEN list
                 ELSE Append(list, Elem(JStr(j.name)))
    IN applyMutations(settings, <<[path |-> j.key, value |-> JArr(added)]>>)

\* addCharLore (part_002), lines 326-337.
EditCharLore(settings, j) ==
    LET charLore == ArrayOrEmpty(lodashGet(settings, j.key, JArr(<<>>)))
        filtered == SelectSeq(charLore, LAMBDA e : Prop(e.v, "name") # Prop(j.entry, "name"))
    IN applyMutations(settings, <<[path |-> j.key, value |-> JArr(Append(filtered, Elem(j.entry)))]>>)

EditSettings(settings, j) ==
    CASE j.kind = "keys" -> EditKeys(settings, j)
      [] j.kind = "template" -> EditTemplate(settings, j)
      [] j.kind = "lorebook" -> EditLorebook(settings, j)
      [] j.kind = "charlore" -> EditCharLore(settings, j)

\* A variant that takes the snapshot before reading the document.
SettingsUnitSnapshotFirst(w, j, handle, dry, t) ==
    LET settingsPath == userSettingsPath(dataRoot, handle)
    IN IF ~existsSync(w.fs, settingsPath) THEN Skipped(w, "no settings.json")
       ELSE LET w0 == IF ~dry
                      THEN backupUserFile(w, dataRoot, handle, <<"settings.json">>, FALSE, t)
                      ELSE w
                w1 == ParseFile(w0, settingsPath)
            IN IF w1.err # "" THEN w1
               ELSE IF w1.val.t = "null" THEN Skipped(w1, "no settings.json")
               ELSE IF dry THEN w1
               ELSE writeSettings(w1, settingsPath, EditSettings(w1.val, j))

\* The unit-operation of setKeyValues (lines 89-114), syncFromTemplate
\* (168-193), linkLorebook (222-256) and addCharLore (part_002, 311-347).
SettingsUnit(w, j, handle, dry, t) ==
    LET settingsPath == userSettingsPath(dataRoot, handle)
    IN IF ~existsSync(w.fs, settingsPath) THEN Skipped(w, "no settings.json")
       ELSE LET w1 == ParseFile(w, settingsPath)
            IN IF w1.err # "" THEN w1
               ELSE IF w1.val.t = "null" THEN Skipped(w1, "no settings.json")
               ELSE LET w2 == IF ~dry
                              THEN backupUserFile(w1, dataRoot, handle, <<"settings.json">>, FALSE, t)
                              ELSE w1
                    IN IF dry THEN w2
                       ELSE writeSettings(w2, settingsPath, EditSettings(w1.val, j))

(***************************************************************************)
(* modules/lorebook-symlinks.js                                            *)
(***************************************************************************)
\* A variant that ignores the entry's type.
isInScaffoldIndexAnyType(f, dir, filename) ==
    \E i \in DOMAIN readIndex(f, scaffoldIndexPath(dir)) :
        Prop(readIndex(f, scaffoldIndexPath(dir))[i].v, "filename") = JStr(filename)

\* isInScaffoldIndex, lines 37-41.
isInScaffoldIndex(f, dir, filename) ==
    \E i \in DOMAIN readIndex(f, scaffoldIndexPath(dir)) :
        /\ Prop(readIndex(f, scaffoldIndexPath(dir))[i].v, "filename") = JStr(filename)
        /\ Prop(readIndex(f, scaffoldIndexPath(dir))[i].v, "type") = JStr("world")

\* run, lines 176-185: the filenames a seeder-conflict warning is printed for.
SeederWarnings(f, filenames) ==
    SelectSeq(filenames, LAMBDA filename : isInScaffoldIndex(f, scaffoldDir, filename))

\* A variant that replaces whatever link it finds, without comparing targets.
createSymlinkForUserReplacesAnyLink(w, sourceAbsolute, targetPath, overridePolicy, dry) ==
    LET present == existsSync(w.fs, targetPath) \/ lstatExists(w.fs, targetPath)
    IN IF present /\ overridePolicy = "skip" THEN Return(w, "skipped")
       ELSE IF present /\ dry THEN Return(w, "replaced")
       ELSE IF dry THEN Return(w, "created")
       ELSE LET w1 == IF present THEN unlinkSync(w, targetPath) ELSE w
                w2 == mkdirSync(w1, dirname(targetPath))
            IN Return(symlinkSync(w2, sourceAbsolute, targetPath), "created")

\* A variant that looks for the target with existsSync alone.
createSymlinkForUserExistsOnly(w, sourceAbsolute, targetPath, overridePolicy, dry) ==
    LET present == existsSync(w.fs, targetPath)
        link == isSymbolicLink(w.fs, targetPath)
    IN IF present /\ link /\ w.fs[targetPath].to = sourceAbsolute
       THEN Return(w, "already-linked")
       ELSE IF present /\ overridePolicy = "skip" THEN Return(w, "skipped")
       ELSE IF present /\ dry THEN Return(w, "replaced")
       ELSE IF dry THEN Return(w, "created")
       ELSE LET w1 == IF present THEN unlinkSync(w, targetPath) ELSE w
                w2 == mkdirSync(w1, dirname(targetPath))
            IN Return(symlinkSync(w2, sourceAbsolute, targetPath), "created")

\* createSymlinkForUser, lines 52-93; the tag returned is in val.
createSymlinkForUser(w, sourceAbsolute, targetPath, overridePolicy, dry) ==
    LET present == existsSync(w.fs, targetPath) \/ lstatExists(w.fs, targetPath)
        link == isSymbolicLink(w.fs, targetPath)
    IN IF present /\ link /\ w.fs[targetPath].to = sourceAbsolute
       THEN Return(w, "already-linked")
       ELSE IF present /\ overridePolicy = "skip" THEN Return(w, "skipped")
       ELSE IF present /\ dry THEN Return(w, "replaced")
       ELSE IF dry THEN Return(w, "created")
       ELSE LET w1 == IF present THEN unlinkSync(w, targetPath) ELSE w
                w2 == mkdirSync(w1, dirname(targetPath))
            IN Return(symlinkSync(w2, sourceAbsolute, targetPath), "created")

\* The unit-operation of run, lines 208-232.
SymlinkUnit(w, j, handle, dry, t) ==
    LET targetPath == join(userWorldsDir(dataRoot, handle), <<j.filename>>)
        w1 == IF j.policy = "all" /\ existsSync(w.fs, targetPath)
                 /\ ~isSymbolicLink(w.fs, targetPath)
              THEN backupUserFile(w, dataRoot, handle, <<"worlds", j.filename>>, dry, t)
              ELSE w
        w2 == createSymlinkForUser(w1, j.source, targetPath, j.policy, dry)
    IN IF w2.err # "" THEN w2
       ELSE IF w2.val = "already-linked" THEN Skipped(w2, "already symlinked to same source")
       ELSE IF w2.val = "skipped" THEN Skipped(w2, "existing file preserved")
       ELSE w2

(***************************************************************************)
(* modules/push-characters.js                                              *)
(***************************************************************************)
\* The unit-operation of immediatePush (lines 37-49) and of scaffoldPush
\* (lines 111-123).
PushUnit(w, j, handle, dry, t) ==
    LET targetDir == userCharactersDir(dataRoot, handle)
    IN IF dry THEN w
       ELSE copyFileSync(mkdirSync(w, targetDir), j.source, join(targetDir, <<basename(j.source)>>))

\* scaffoldPush before its batch, lines 79-96.
ScaffoldPushIndex(w, sourcePath, targetDir, dry) ==
    LET indexPath == join(targetDir, <<"index.json">>)
    IN IF dry THEN w
       ELSE LET w1 == copyFileSync(mkdirSync(w, targetDir), sourcePath,
                                   join(targetDir, <<basename(sourcePath)>>))
                updated == addEntry(readIndex(w1.fs, indexPath),
                                    IndexEntry(basename(sourcePath), "character"))
            IN writeIndex(w1, indexPath, updated)

(***************************************************************************)
(* modules/backup-ops.js (part_003, lines 1-153)                           *)
(***************************************************************************)
\* timestampedDir, lines 14-17.
timestampedDir(label, t) == label \o "-" \o timestamp(t)

\* The unit-operation of backupAllSettings (lines 33-49) and of
\* backupSpecificFile (lines 83-99); j.dir was computed before the loop.
BackupOpsUnit(w, j, handle, dry, t) ==
    LET filePath == join(dataRoot, <<handle, j.file>>)
        targetDir == join(j.dir, <<handle>>)
    IN IF ~existsSync(w.fs, filePath) THEN Skipped(w, "no " \o j.file)
       ELSE IF dry THEN w
       ELSE copyFileSync(mkdirSync(w, targetDir), filePath, join(targetDir, <<j.file>>))

(***************************************************************************)
(* modules/bulk-delete.js (part_003, lines 155-241)                        *)
(***************************************************************************)
\* The unit-operation of run, lines 222-240.
DeleteUnit(w, j, handle, dry, t) ==
    LET filePath == join(dataRoot, <<handle, j.subDir, j.filename>>)
    IN IF ~existsSync(w.fs, filePath) THEN Skipped(w, "file not found")
       ELSE IF dry THEN w
       ELSE LET w1 == IF j.backupFirst
                      THEN backupUserFile(w, dataRoot, handle, <<j.subDir, j.filename>>, FALSE, t)
                      ELSE w
            IN unlinkSync(w1, filePath)

(***************************************************************************)
(* modules/reset-content-log.js                                            *)
(***************************************************************************)
\* A variant that deletes the log without a snapshot.
ResetLogUnitNoSnapshot(w, j, handle, dry, t) ==
    LET logPath == userContentLogPath(dataRoot, handle)
    IN IF ~existsSync(w.fs, logPath) THEN Skipped(w, "no content.log")
       ELSE IF dry THEN w
       ELSE unlinkSync(w, logPath)

\* The unit-operation of fullReset, lines 22-37.
ResetLogUnit(w, j, handle, dry, t) ==
    LET logPath == userContentLogPath(dataRoot, handle)
    IN IF ~existsSync(w.fs, logPath) THEN Skipped(w, "no content.log")
       ELSE IF dry THEN w
       ELSE unlinkSync(backupUserFile(w, dataRoot, handle, <<"content.log">>, FALSE, t), logPath)

\* operationFn(handle) for the closure `j`.
UnitOp(w, j, handle, dry, t) ==
    CASE j.kind \in {"keys", "template", "lorebook", "charlore"} -> SettingsUnit(w, j, handle, dry, t)
      [] j.kind = "symlink" -> SymlinkUnit(w, j, handle, dry, t)
      [] j.kind = "push" -> PushUnit(w, j, handle, dry, t)
      [] j.kind = "backup-ops" -> BackupOpsUnit(w, j, handle, dry, t)
      [] j.kind = "delete" -> DeleteUnit(w, j, handle, dry, t)
      [] j.kind = "reset-log" -> ResetLogUnit(w, j, handle, dry, t)

\* How the promise of operationFn(handle) settles.
OutcomeOf(w) ==
    IF w.err # "" THEN Threw(w.err)
    ELSE IF w.out = "skipped" THEN Skip(w.why)
    ELSE Success

(***************************************************************************)
(* The installation the tool is run on: a data root with one directory per *)
(* user, the scaffold (an index and a lorebook), the cookie secret, and,   *)
(* outside the data root, a character card and a golden template.          *)
(***************************************************************************)
Settings0 ==
    JObj(<<Member("theme", JStr("light")),
           Member("world_info", JObj(<<Member("globalSelect", JArr(<<Elem(JStr("A"))>>))>>))>>)

Golden == JObj(<<Member("theme", JStr("gold"))>>)

Lorebook(owner) == JObj(<<Member("name", JStr(owner))>>)

cardPath == <<"srv", "C.png">>
goldenPath == <<"srv", "golden.json">>

\* The arguments of a library call, as JSON values.
NoArgs ==
    [mutations |-> <<>>, keys |-> <<>>, entry |-> JNull, filenames |-> {},
     filename |-> "", updates |-> JNull, input |-> <<>>, key |-> NoPath, name |-> ""]

\* No module is asking anything.
NoDialog ==
    [mode |-> "none", at |-> "none", path |-> NoPath, name |-> "", items |-> <<>>,
     users |-> <<>>, cancelled |-> FALSE]

\* No library call has been made.
NoMem ==
    [heap |-> <<>>, cur |-> 0, index |-> 0, tpl |-> 0,
     fn |-> "none", doc |-> 0, out |-> 0, threw |-> FALSE, args |-> NoArgs, log |-> <<>>]

\* What a user directory may hold when the tool starts.
Profiles == {"full", "corrupt", "bare"}

Tree(pairs) == [p \in {x[1] : x \in pairs} |-> (CHOOSE x \in pairs : x[1] = p)[2]]

UserTree(h, profile) ==
    {<<userDir(dataRoot, h), Dir>>}
    \cup (IF profile = "bare" THEN {}
          ELSE {<<userSettingsPath(dataRoot, h),
                  File(IF profile = "corrupt" THEN RawText("{ theme: ") ELSE JsonText(Settings0))>>,
                <<userContentLogPath(dataRoot, h), File(RawText("log"))>>,
                <<userWorldsDir(dataRoot, h), Dir>>,
                <<join(userWorldsDir(dataRoot, h), <<"L.json">>), File(JsonText(Lorebook(h)))>>,
                <<userCharactersDir(dataRoot, h), Dir>>,
                <<join(userCharactersDir(dataRoot, h), <<"C.png">>), File(RawText("old card"))>>})

BaseTree ==
    {<<dataRoot, Dir>>,
     <<join(dataRoot, <<"default">>), Dir>>,
     <<scaffoldDir, Dir>>,
     <<scaffoldIndexPath(scaffoldDir), File(JsonText(JArr(<<IndexEntry("L.json", "world")>>)))>>,
     <<join(scaffoldDir, <<"worlds">>), Dir>>,
     <<join(scaffoldDir, <<"worlds", "L.json">>), File(JsonText(Lorebook("scaffold")))>>,
     <<cookieSecretPath(dataRoot), File(RawText("secret"))>>,
     <<<<"srv">>, Dir>>,
     <<cardPath, File(RawText("new card"))>>,
     <<goldenPath, File(JsonText(Golden))>>}

InitialFs(p1, p2) == Tree(BaseTree \cup UserTree("u1", p1) \cup UserTree("u2", p2))

InitFs ==
    /\ \E p2 \in Profiles \ {"full"} : fs = InitialFs("full", p2)
    /\ now = 0
    /\ nops = 0
    /\ edIndex = <<>>
    /\ returned = NoPath
    /\ trace = <<>>
    /\ fs0 = fs
    /\ env = NoEnv
    /\ warned = <<>>
    /\ mem = NoMem
    /\ dialog = NoDialog

(***************************************************************************)
(* The unit-operations of the generic batch: any operation, settling in    *)
(* any of these ways.                                                      *)
(***************************************************************************)
Units == {"u1", "u2", "u3"}

GenericOutcomes ==
    { Success,                 \* 'success'
      Skip("why"),             \* { skipped: 'why' }
      Skip(""),                \* { skipped: '' }: not a skip by line 124
      Threw("boom") }          \* throw new Error('boom')

(***************************************************************************)
(* batchOperation, lines 100-140.                                          *)
(***************************************************************************)
\* Lines 100-107: the call; an empty list returns at once.
BatchBegin(us, j) ==
    /\ users' = us
    /\ job' = j
    /\ results' = EmptyResults
    /\ calls' = <<>>
    /\ hist' = <<>>
    /\ idx' = 1
    /\ inflight' = FALSE
    /\ pending' = NoOutcome
    /\ IF Len(us) = 0
       THEN pc' = "menu" /\ ret' = "returned"
       ELSE pc' = "batch" /\ ret' = "none"

\* A caller hands batchOperation a list of units and a unit-operation.
StartGeneric ==
    /\ pc = "menu"
    /\ \E us \in Perms(Units) : BatchBegin(us, [NoJob EXCEPT !.kind = "generic"])
    /\ UNCHANGED fsVars
    /\ UNCHANGED libVars

\* Line 123: operationFn(handle) is invoked.
GenericCall ==
    /\ pc = "batch"
    /\ job.kind = "generic"
    /\ idx <= Len(users)
    /\ Await
    /\ \E o \in GenericOutcomes : pending' = o
    /\ inflight' = TRUE
    /\ calls' = Append(calls, users[idx])
    /\ UNCHANGED <<pc, job, users, idx, results, ret, hist>>
    /\ UNCHANGED fsVars
    /\ UNCHANGED libVars

\* Lines 123-132: the awaited call settles; its outcome is recorded.
Settle ==
    /\ pc = "batch"
    /\ inflight
    /\ LET t == TryCatch(results, users[idx], pending)
       IN /\ results' = t.res
          /\ hist' = Append(hist, [handle |-> users[idx], o |-> pending, env |-> env])
          /\ inflight' = FALSE
          /\ IF t.esc
             THEN pc' = "menu" /\ ret' = "threw" /\ idx' = idx
             ELSE pc' = pc /\ ret' = ret /\ idx' = idx + 1
    /\ UNCHANGED <<job, users, pending, calls>>
    /\ UNCHANGED fsVars
    /\ UNCHANGED libVars

\* Lines 135-139: the loop is over; the report is returned.
BatchReturn ==
    /\ pc = "batch"
    /\ ~inflight
    /\ idx > Len(users)
    /\ pc' = "menu"
    /\ ret' = "returned"
    /\ UNCHANGED <<job, users, idx, inflight, pending, results, calls, hist>>
    /\ UNCHANGED fsVars
    /\ UNCHANGED libVars

InitBatch ==
    /\ pc = "menu"
    /\ job = NoJob
    /\ users = <<>>
    /\ idx = 1
    /\ inflight = FALSE
    /\ pending = NoOutcome
    /\ results = EmptyResults
    /\ ret = "none"
    /\ calls = <<>>
    /\ hist = <<>>
    /\ InitFs
    /\ fs = InitialFs("full", "bare")
    /\ dryRun = FALSE

NextBatch == StartGeneric \/ GenericCall \/ Settle \/ BatchReturn

SpecBatch == InitBatch /\ [][NextBatch]_vars

\* The operator's cancellation while a batch runs: Ctrl-C.  The loop of
\* lines 120-133 reads no cancellation flag and no file registers a SIGINT
\* listener (index.js, lines 1-7), so the signal ends the process where it
\* stands: a call in flight never settles and batchOperation never returns.
Sigint ==
    /\ pc = "batch"
    /\ pc' = "exited"
    /\ UNCHANGED <<job, users, idx, inflight, pending, results, ret, calls, hist>>
    /\ UNCHANGED fsVars
    /\ UNCHANGED libVars

NextCancel == StartGeneric \/ GenericCall \/ Settle \/ BatchReturn \/ Sigint

SpecCancel == InitBatch /\ [][NextCancel]_vars

(***************************************************************************)
(* The tool: the main menu (menu.js) runs one module at a time; a module   *)
(* collects its parameters from the operator and hands batchOperation a    *)
(* list of users and a unit-operation.                                     *)
(***************************************************************************)
\* Bounds: module runs per execution, seconds the clock advances, the
\* position of the failing filesystem call, and failing calls per batch.
MaxOps == 2
MaxTime == 1
MaxFault == 1
MaxFaults == 1

Eacces == "EACCES: permission denied"

FaultsSoFar == Cardinality({i \in DOMAIN hist : hist[i].o.msg = Eacces})

\* The operator may start another module run.
AtMenu == pc = "menu" /\ nops < MaxOps

\* A module starts its batch on the users selected.
StartBatch(us, j, f, warnings) ==
    /\ BatchBegin(us, j)
    /\ nops' = nops + 1
    /\ fs' = f
    /\ fs0' = f
    /\ trace' = <<>>
    /\ env' = NoEnv
    /\ warned' = warnings
    /\ mem' = mem
    /\ dialog' = [dialog EXCEPT !.at = "none"]
    /\ UNCHANGED <<now, dryRun, edIndex, returned>>

\* bulk-settings.js run, lines 263-277 (part_002, 355-371): the four modes.
BulkSettingsJobs(f) ==
    {[NoJob EXCEPT !.kind = "keys",
                   !.mutations = <<[path |-> <<"theme">>, value |-> JStr("dark")]>>],
     [NoJob EXCEPT !.kind = "lorebook", !.name = "L.json",
                   !.key = <<"world_info", "globalSelect">>],
     [NoJob EXCEPT !.kind = "charlore",
                   !.key = <<"world_info_settings", "world_info", "charLore">>,
                   !.entry = JObj(<<Member("name", JStr("C")),
                                    Member("extraBooks", JArr(<<Elem(JStr("L"))>>))>>)]}
    \cup (IF existsSync(f, goldenPath) /\ ReadText(f, goldenPath).json
              /\ ReadText(f, goldenPath).v.t = "obj"
           THEN {[NoJob EXCEPT !.kind = "template", !.template = ReadText(f, goldenPath).v,
                               !.keys = <<<<ReadText(f, goldenPath).v.kids[i].k>>>>] :
                    i \in DOMAIN ReadText(f, goldenPath).v.kids}
           ELSE {})

StartBulkSettings ==
    /\ AtMenu
    /\ \E j \in BulkSettingsJobs(fs), us \in selectUsers(fs) :
          StartBatch(us, j, fs, <<>>)

\* lorebook-symlinks.js run, lines 113-206: a scaffold lorebook or a custom
\* path that exists, and the policy for existing files.
SymlinkSources(f) ==
    {src \in {join(scaffoldDir, <<"worlds", "L.json">>)}
               \cup {join(userWorldsDir(dataRoot, h), <<"L.json">>) : h \in {Head(Handles)}} :
        existsSync(f, src)}

StartSymlinks ==
    /\ AtMenu
    /\ \E src \in SymlinkSources(fs), policy \in {"all", "skip"}, us \in selectUsers(fs) :
          StartBatch(us, [NoJob EXCEPT !.kind = "symlink", !.source = src,
                                       !.filename = basename(src), !.policy = policy],
                     fs, SeederWarnings(fs, <<basename(src)>>))

\* push-characters.js immediatePush, lines 14-36.
StartImmediatePush ==
    /\ AtMenu
    /\ existsSync(fs, cardPath)
    /\ \E us \in selectUsers(fs) :
          StartBatch(us, [NoJob EXCEPT !.kind = "push", !.source = cardPath], fs, <<>>)

\* push-characters.js scaffoldPush, lines 56-110: the card is copied and
\* indexed; the operator may then push it to existing users.
ScaffoldPushOnly ==
    /\ AtMenu
    /\ existsSync(fs, cardPath)
    /\ \E targetDir \in {scaffoldDir, contentDir} :
          LET w == ScaffoldPushIndex(World(fs, 0), cardPath, targetDir, dryRun)
          IN fs' = w.fs /\ trace' = w.tr
    /\ nops' = nops + 1
    /\ UNCHANGED <<batchVars, now, dryRun, edIndex, returned, fs0, env>>
    /\ UNCHANGED libVars

StartScaffoldPush ==
    /\ AtMenu
    /\ existsSync(fs, cardPath)
    /\ \E targetDir \in {scaffoldDir, contentDir} :
          LET w == ScaffoldPushIndex(World(fs, 0), cardPath, targetDir, dryRun)
          IN \E us \in selectUsers(w.fs) :
                StartBatch(us, [NoJob EXCEPT !.kind = "push", !.source = cardPath], w.fs, <<>>)

\* backup-ops.js backupAllSettings and backupSpecificFile: every user.
StartBackupOps ==
    /\ AtMenu
    /\ \E b \in {<<"settings.json", "settings-backup">>,
                 <<"content.log", "content-log-backup">>} :
          StartBatch(discoverUsers(fs),
                     [NoJob EXCEPT !.kind = "backup-ops", !.file = b[1],
                                   !.dir = join(backupRoot, <<timestampedDir(b[2], now)>>)],
                     fs, <<>>)

\* bulk-delete.js run, lines 175-220: nothing is started when no selected
\* user has the file.
StartBulkDelete ==
    /\ AtMenu
    /\ \E target \in {<<"worlds", "L.json">>},
          backupFirst \in BOOLEAN, us \in selectUsers(fs) :
          /\ \E i \in DOMAIN us : existsSync(fs, join(dataRoot, <<us[i]>> \o target))
          /\ StartBatch(us, [NoJob EXCEPT !.kind = "delete", !.subDir = target[1],
                                          !.filename = target[2],
                                          !.backupFirst = backupFirst], fs, <<>>)

\* reset-content-log.js fullReset, lines 13-21.
StartResetLog ==
    /\ AtMenu
    /\ \E us \in selectUsers(fs) :
          StartBatch(us, [NoJob EXCEPT !.kind = "reset-log"], fs, <<>>)

\* fresh-login.js run, lines 11-45: the cookie secret is deleted.
FreshLogin ==
    /\ AtMenu
    /\ existsSync(fs, cookieSecretPath(dataRoot))
    /\ LET w == IF dryRun THEN World(fs, 0)
                ELSE unlinkSync(World(fs, 0), cookieSecretPath(dataRoot))
       IN fs' = w.fs /\ trace' = w.tr
    /\ nops' = nops + 1
    /\ UNCHANGED <<batchVars, now, dryRun, edIndex, returned, fs0, env>>
    /\ UNCHANGED libVars

\* Line 123 of batchOperation: operationFn(handle) runs against the
\* filesystem, under the clock, with at most one failing filesystem call.
UnitCall ==
    /\ pc = "batch"
    /\ job.kind # "generic"
    /\ idx <= Len(users)
    /\ Await
    /\ \E k \in 0..MaxFault :
          LET w == UnitOp(World(fs, k), job, users[idx], dryRun, now)
          IN /\ k > 0 => FaultsSoFar < MaxFaults /\ w.err = Eacces
             /\ fs' = w.fs
             /\ trace' = w.tr
             /\ pending' = OutcomeOf(w)
             /\ env' = [k |-> k, t |-> now]
    /\ inflight' = TRUE
    /\ calls' = Append(calls, users[idx])
    /\ UNCHANGED <<pc, job, users, idx, results, ret, hist>>
    /\ UNCHANGED <<now, dryRun, nops, edIndex, returned, fs0>>
    /\ UNCHANGED libVars

\* A second passes.
Tick ==
    /\ pc # "batch"
    /\ now < MaxTime
    /\ now' = now + 1
    /\ UNCHANGED <<batchVars, fs, dryRun, nops, edIndex, returned, trace, fs0, env>>
    /\ UNCHANGED libVars

(***************************************************************************)
(* modules/scaffold-editor.js (part_001): the editor keeps `index` in      *)
(* memory between the operator's actions.                                  *)
(***************************************************************************)
\* The filenames and content types the operator enters.
EditorNames == {"L.json", "C.png"}
EditorTypes == {"world", "character"}

\* run, lines 211-213.
EditorOpen ==
    /\ AtMenu
    /\ pc' = "editor"
    /\ edIndex' = readIndex(fs, scaffoldIndexPath(scaffoldDir))
    /\ UNCHANGED <<job, users, idx, inflight, pending, results, ret, calls, hist>>
    /\ UNCHANGED <<fs, now, dryRun, nops, returned, trace, fs0, env>>
    /\ UNCHANGED libVars

\* run, lines 231-234: the index file is snapshotted before the action.
EditorBackup ==
    IF ~dryRun
    THEN backupToAdmin(World(fs, 0), backupRoot, scaffoldIndexPath(scaffoldDir),
                       "scaffold-index", dryRun, now)
    ELSE World(fs, 0)

\* The end of addNewEntry, removeExistingEntries and editExistingEntry:
\* the updated index is written (in a real run) and kept.
EditorCommit(w, updated) ==
    /\ LET w1 == IF dryRun THEN w ELSE writeIndex(w, scaffoldIndexPath(scaffoldDir), updated)
       IN fs' = w1.fs /\ trace' = w1.tr
    /\ edIndex' = updated
    /\ nops' = nops + 1
    /\ UNCHANGED <<batchVars, now, dryRun, returned, fs0, env>>
    /\ UNCHANGED libVars

InEditor == pc = "editor" /\ nops < MaxOps

\* addNewEntry, lines 52-105.
EditorAdd ==
    /\ InEditor
    /\ \E filename \in EditorNames, type \in EditorTypes :
          EditorCommit(EditorBackup, addEntry(edIndex, IndexEntry(filename, type)))

\* removeExistingEntries, lines 114-145.
EditorRemove ==
    /\ InEditor
    /\ edIndex # <<>>
    /\ \E toRemove \in SUBSET {edIndex[i].v.kids[1].v.s : i \in DOMAIN edIndex} :
          /\ toRemove # {}
          /\ EditorCommit(EditorBackup, removeEntries(edIndex, toRemove))

\* editExistingEntry, lines 154-205: no write when nothing changes.
EditorEdit ==
    /\ InEditor
    /\ edIndex # <<>>
    /\ \E i \in DOMAIN edIndex, newFilename \in EditorNames, newType \in EditorTypes :
          LET entry == edIndex[i].v
              updates ==
                 (IF JStr(newFilename) # Prop(entry, "filename")
                  THEN <<Member("filename", JStr(newFilename))>> ELSE <<>>)
                 \o (IF JStr(newType) # Prop(entry, "type")
                     THEN <<Member("type", JStr(newType))>> ELSE <<>>)
          IN IF updates = <<>>
             THEN /\ fs' = EditorBackup.fs
                  /\ trace' = EditorBackup.tr
                  /\ nops' = nops + 1
                  /\ UNCHANGED <<batchVars, now, dryRun, edIndex, returned, fs0, env>>
                  /\ UNCHANGED libVars
             ELSE EditorCommit(EditorBackup,
                               updateEntry(edIndex, Prop(entry, "filename").s, updates))

\* run, line 229: back to the main menu.
EditorBack ==
    /\ pc = "editor"
    /\ pc' = "menu"
    /\ UNCHANGED <<job, users, idx, inflight, pending, results, ret, calls, hist>>
    /\ UNCHANGED fsVars
    /\ UNCHANGED libVars

Init ==
    /\ pc = "menu"
    /\ job = NoJob
    /\ users = <<>>
    /\ idx = 1
    /\ inflight = FALSE
    /\ pending = NoOutcome
    /\ results = EmptyResults
    /\ ret = "none"
    /\ calls = <<>>
    /\ hist = <<>>
    /\ InitFs
    /\ dryRun \in BOOLEAN

Next ==
    \/ StartBulkSettings
    \/ StartSymlinks
    \/ StartImmediatePush
    \/ ScaffoldPushOnly
    \/ StartScaffoldPush
    \/ StartBackupOps
    \/ StartBulkDelete
    \/ StartResetLog
    \/ FreshLogin
    \/ EditorOpen
    \/ EditorAdd
    \/ EditorRemove
    \/ EditorEdit
    \/ EditorBack
    \/ UnitCall
    \/ Settle
    \/ BatchReturn
    \/ Tick

Spec == Init /\ [][Next]_vars

(***************************************************************************)
(* The Link Resolver on its own: createSymlinkForUser and the symlink      *)
(* unit-operation called for one user at a time, with a source that exists *)
(* when the call is made, under either policy, in a real run or a dry run. *)
(* The links a call finds are the links earlier calls made.                *)
(***************************************************************************)
\* Bound: direct calls per execution.
MaxCalls == 3

AtCall == pc = "menu" /\ nops < MaxCalls

\* What a direct call leaves behind: its parameters in job, the filesystem
\* before it in fs0, the tag returned (nothing when it threw) in returned.
LinkCalled(kind, source, targetPath, policy, dry, w) ==
    /\ nops' = nops + 1
    /\ job' = [NoJob EXCEPT !.kind = kind, !.source = source, !.dir = targetPath,
                            !.filename = basename(source), !.policy = policy, !.dry = dry]
    /\ fs' = w.fs
    /\ fs0' = fs
    /\ trace' = w.tr
    /\ returned' = IF w.err # "" THEN "" ELSE w.val
    /\ pending' = OutcomeOf(w)
    /\ UNCHANGED <<pc, users, idx, inflight, results, ret, calls, hist>>
    /\ UNCHANGED <<now, dryRun, edIndex, env>>
    /\ UNCHANGED libVars

CallCreateSymlink ==
    /\ AtCall
    /\ \E src \in SymlinkSources(fs), h \in Range(Handles), policy \in {"all", "skip"},
          dry \in BOOLEAN, k \in 0..MaxFault :
          LET targetPath == join(userWorldsDir(dataRoot, h), <<basename(src)>>)
              w == createSymlinkForUser(World(fs, k), src, targetPath, policy, dry)
          IN /\ k > 0 => w.err = Eacces
             /\ LinkCalled("createSymlinkForUser", src, targetPath, policy, dry, w)

CallSymlinkUnit ==
    /\ AtCall
    /\ \E src \in SymlinkSources(fs), h \in Range(Handles), policy \in {"all", "skip"},
          dry \in BOOLEAN, k \in 0..MaxFault :
          LET targetPath == join(userWorldsDir(dataRoot, h), <<basename(src)>>)
              j == [NoJob EXCEPT !.kind = "symlink", !.source = src,
                                 !.filename = basename(src), !.policy = policy]
              w == SymlinkUnit(World(fs, k), j, h, dry, now)
          IN /\ k > 0 => w.err = Eacces
             /\ LinkCalled("symlink", src, targetPath, policy, dry, w)

InitLink == InitBatch

NextLink == CallCreateSymlink \/ CallSymlinkUnit

SpecLink == InitLink /\ [][NextLink]_vars

(***************************************************************************)
(* lib/json-merge.js, bulk-settings.js's charLore upsert and               *)
(* lib/content-index.js on the JavaScript heap.  An object lives at an     *)
(* address of `heap`; its kids hold the addresses of its members, so that  *)
(* two references to one object see each other's assignments.  An array    *)
(* keeps its elements (k = "") and any named property set on it.           *)
(***************************************************************************)
\* Bounds: calls on the settings document, and on the index collection,
\* per execution.
MaxLibCalls == 2
MaxIndexCalls == 3

hasProp(node, key) == isObject(node) /\ \E i \in DOMAIN node.kids : node.kids[i].k = key

propOf(node, key) == node.kids[CHOOSE i \in DOMAIN node.kids : node.kids[i].k = key].v

\* node[key] = v
assignNode(node, key, v) ==
    IF hasProp(node, key)
    THEN [node EXCEPT !.kids =
             [i \in DOMAIN node.kids |->
                 IF node.kids[i].k = key THEN Member(key, v) ELSE node.kids[i]]]
    ELSE [node EXCEPT !.kids = Append(@, Member(key, v))]

\* JSON.stringify: the text of the value at an address (an array's named
\* properties are not written).
RECURSIVE JSONstringify(_, _)
JSONstringify(h, a) ==
    LET written == IF h[a].t = "arr"
                   THEN SelectSeq(h[a].kids, LAMBDA e : e.k = "")
                   ELSE h[a].kids
    IN [t |-> h[a].t, s |-> h[a].s,
        kids |-> [i \in DOMAIN written |->
                     [k |-> written[i].k, v |-> JSONstringify(h, written[i].v)]]]

\* How many objects JSON.parse builds for a value.
RECURSIVE Size(_)
RECURSIVE SizeOfKids(_)
Size(val) == 1 + SizeOfKids(val.kids)

SizeOfKids(kids) ==
    IF kids = <<>> THEN 0 ELSE Size(Head(kids).v) + SizeOfKids(Tail(kids))

\* The objects built for a value when `base` addresses are taken: the
\* members' objects first, the value's own object last.
RECURSIVE Nodes(_, _)
RECURSIVE KidNodes(_, _)
RECURSIVE KidRefs(_, _)
Nodes(val, base) ==
    KidNodes(val.kids, base)
        \o <<[t |-> val.t, s |-> val.s, kids |-> KidRefs(val.kids, base)]>>

KidNodes(kids, base) ==
    IF kids = <<>> THEN <<>>
    ELSE Nodes(Head(kids).v, base) \o KidNodes(Tail(kids), base + Size(Head(kids).v))

KidRefs(kids, base) ==
    IF kids = <<>> THEN <<>>
    ELSE <<Member(Head(kids).k, base + Size(Head(kids).v))>>
            \o KidRefs(Tail(kids), base + Size(Head(kids).v))

\* JSON.parse: the value built out of new objects; [heap, at].
JSONparse(h, val) == [heap |-> h \o Nodes(val, Len(h)), at |-> Len(h) + Size(val)]

\* lodash.get(object, path): the address found, 0 for undefined.
RECURSIVE lodashGetAt(_, _, _)
lodashGetAt(h, a, path) ==
    IF path = <<>> THEN a
    ELSE IF ~hasProp(h[a], Head(path)) THEN 0
    ELSE lodashGetAt(h, propOf(h[a], Head(path)), Tail(path))

\* lodash.set(object, path, value): assigns in place, creating {} where the
\* path runs through something that is not an object.
RECURSIVE lodashSetAt(_, _, _, _)
lodashSetAt(h, a, path, v) ==
    IF ~isObject(h[a]) \/ path = <<>> THEN h
    ELSE IF Len(path) = 1 THEN [h EXCEPT ![a] = assignNode(@, Head(path), v)]
    ELSE IF hasProp(h[a], Head(path)) /\ isObject(h[propOf(h[a], Head(path))])
    THEN lodashSetAt(h, propOf(h[a], Head(path)), Tail(path), v)
    ELSE LET n == Len(h) + 1
         IN lodashSetAt([Append(h, JObj(<<>>)) EXCEPT ![a] = assignNode(@, Head(path), n)],
                        n, Tail(path), v)

\* A variant that applies the last directive only.
setEachLastOnly(h, result, mutations) ==
    IF mutations = <<>> THEN h
    ELSE lodashSetAt(h, result, mutations[Len(mutations)].path,
                     mutations[Len(mutations)].value)

\* The loop of applyMutations, lines 16-18.
RECURSIVE setEach(_, _, _)
setEach(h, result, mutations) ==
    IF mutations = <<>> THEN h
    ELSE setEach(lodashSetAt(h, result, Head(mutations).path, Head(mutations).value),
                 result, Tail(mutations))

\* A variant that works on the original itself.
applyMutationsInPlace(h, original, mutations) ==
    [heap |-> setEach(h, original, mutations), at |-> original]

\* applyMutations, lines 13-21; [heap, at].
applyMutationsAt(h, original, mutations) ==
    LET result == JSONparse(h, JSONstringify(h, original))
    IN [heap |-> setEach(result.heap, result.at, mutations), at |-> result.at]

\* The loop of syncSections, lines 35-40.
RECURSIVE syncEach(_, _, _, _)
syncEach(h, result, template, keys) ==
    IF keys = <<>> THEN h
    ELSE LET templateValue == lodashGetAt(h, template, Head(keys))
             copy == JSONparse(h, JSONstringify(h, templateValue))
         IN syncEach(IF templateValue # 0
                     THEN lodashSetAt(copy.heap, result, Head(keys), copy.at)
                     ELSE h,
                     result, template, Tail(keys))

\* A variant that writes null where the template has no value.
syncSectionsAtNoGuard(h, target, template, keys) ==
    LET result == JSONparse(h, JSONstringify(h, target))
        none == JSONparse(result.heap, JNull)
    IN [heap |-> IF lodashGetAt(h, template, Head(keys)) = 0
                 THEN lodashSetAt(none.heap, result.at, Head(keys), none.at)
                 ELSE syncEach(result.heap, result.at, template, keys),
        at |-> result.at]

\* syncSections, lines 32-43; [heap, at].
syncSectionsAt(h, target, template, keys) ==
    LET result == JSONparse(h, JSONstringify(h, target))
    IN [heap |-> syncEach(result.heap, result.at, template, keys), at |-> result.at]

CHARLORE_PATH == <<"world_info_settings", "world_info", "charLore">>

\* e.name, as text ("undefined" when there is none).
nameAt(h, a) ==
    IF hasProp(h[a], "name") THEN JSONstringify(h, propOf(h[a], "name")) ELSE Undefined

\* A variant that appends without removing.
addCharLoreAtAppendOnly(h, settings, entry) ==
    LET currentCharLore == lodashGetAt(h, settings, CHARLORE_PATH)
        charLore == IF currentCharLore # 0 /\ h[currentCharLore].t = "arr"
                    THEN SelectSeq(h[currentCharLore].kids, LAMBDA e : e.k = "")
                    ELSE <<>>
        list == Len(h) + 1
    IN applyMutationsAt(Append(h, JArr(Append(charLore, Elem(entry)))), settings,
                        <<[path |-> CHARLORE_PATH, value |-> list]>>)

\* addCharLore (part_002), lines 326-337; [heap, at].
addCharLoreAt(h, settings, entry) ==
    LET currentCharLore == lodashGetAt(h, settings, CHARLORE_PATH)
        charLore == IF currentCharLore # 0 /\ h[currentCharLore].t = "arr"
                    THEN SelectSeq(h[currentCharLore].kids, LAMBDA e : e.k = "")
                    ELSE <<>>
        filtered == SelectSeq(charLore, LAMBDA e : nameAt(h, e.v) # nameAt(h, entry))
        list == Len(h) + 1
    IN applyMutationsAt(Append(h, JArr(Append(filtered, Elem(entry)))), settings,
                        <<[path |-> CHARLORE_PATH, value |-> list]>>)

\* A variant that pushes the name without looking for it.
linkLorebookAtAlwaysPushes(h, settings, settingsKey, lorebookName) ==
    LET currentList == lodashGetAt(h, settings, settingsKey)
        isArray == currentList # 0 /\ h[currentList].t = "arr"
        h1 == IF isArray THEN h ELSE Append(h, JArr(<<>>))
        list == IF isArray THEN currentList ELSE Len(h1)
        h2 == [Append(h1, JStr(lorebookName)) EXCEPT
                  ![list] = [@ EXCEPT !.kids = Append(@, Elem(Len(h1) + 1))]]
    IN applyMutationsAt(h2, settings, <<[path |-> settingsKey, value |-> list]>>)

\* linkLorebook (part_002), lines 238-247: the list found in the settings
\* is the settings' own array, and push adds to it in place; [heap, at].
linkLorebookAt(h, settings, settingsKey, lorebookName) ==
    LET currentList == lodashGetAt(h, settings, settingsKey)
        isArray == currentList # 0 /\ h[currentList].t = "arr"
        h1 == IF isArray THEN h ELSE Append(h, JArr(<<>>))
        list == IF isArray THEN currentList ELSE Len(h1)
        includes == \E i \in DOMAIN h1[list].kids :
                        /\ h1[list].kids[i].k = ""
                        /\ h1[h1[list].kids[i].v] = JStr(lorebookName)
        h2 == IF includes THEN h1
              ELSE [Append(h1, JStr(lorebookName)) EXCEPT
                       ![list] = [@ EXCEPT !.kids = Append(@, Elem(Len(h1) + 1))]]
    IN applyMutationsAt(h2, settings, <<[path |-> settingsKey, value |-> list]>>)

\* e.filename, as text.
filenameAt(h, a) ==
    IF hasProp(h[a], "filename") THEN JSONstringify(h, propOf(h[a], "filename")) ELSE Undefined

elementsAt(h, a) == SelectSeq(h[a].kids, LAMBDA e : e.k = "")

\* A variant that appends without looking.
addEntryAtAlwaysAppends(h, index, entry) ==
    [heap |-> Append(h, JArr(Append(elementsAt(h, index), Elem(entry)))), at |-> Len(h) + 1]

\* addEntry (part_005), lines 39-43; [heap, at].
addEntryAt(h, index, entry) ==
    IF \E i \in DOMAIN elementsAt(h, index) :
           filenameAt(h, elementsAt(h, index)[i].v) = filenameAt(h, entry)
    THEN [heap |-> h, at |-> index]
    ELSE [heap |-> Append(h, JArr(Append(elementsAt(h, index), Elem(entry)))), at |-> Len(h) + 1]

\* removeEntries (part_005), lines 51-53; [heap, at].
removeEntriesAt(h, index, filenames) ==
    [heap |-> Append(h, JArr(SelectSeq(elementsAt(h, index),
                                       LAMBDA e : filenameAt(h, e.v) \notin
                                                     {JStr(n) : n \in filenames}))),
     at |-> Len(h) + 1]

\* { ...e, ...updates }: a new object with e's members, then updates'.
RECURSIVE assignEach(_, _)
assignEach(node, members) ==
    IF members = <<>> THEN node
    ELSE assignEach(assignNode(node, Head(members).k, Head(members).v), Tail(members))

spreadAt(h, e, updates) == assignEach(JObj(h[e].kids), h[updates].kids)

\* A variant that inserts the patch as a record when no filename matches.
updateEntryAtUpserts(h, index, filename, updates) ==
    LET elems == elementsAt(h, index)
        hit(i) == filenameAt(h, elems[i].v) = JStr(filename)
        rank(i) == Cardinality({j \in 1..i : hit(j)})
        n == rank(Len(elems))
        merged == [k \in 1..n |->
                      spreadAt(h, elems[CHOOSE i \in DOMAIN elems : hit(i) /\ rank(i) = k].v,
                               updates)]
        mapped == [i \in DOMAIN elems |->
                      Elem(IF hit(i) THEN Len(h) + rank(i) ELSE elems[i].v)]
    IN [heap |-> h \o merged
                   \o <<JArr(IF n = 0 THEN Append(mapped, Elem(updates)) ELSE mapped)>>,
        at |-> Len(h) + n + 1]

\* updateEntry (part_005), lines 62-69: map builds a new array; a record
\* whose filename matches is replaced by a new object, the k-th such
\* object at the k-th new address; [heap, at].
updateEntryAt(h, index, filename, updates) ==
    LET elems == elementsAt(h, index)
        hit(i) == filenameAt(h, elems[i].v) = JStr(filename)
        rank(i) == Cardinality({j \in 1..i : hit(j)})
        n == rank(Len(elems))
        merged == [k \in 1..n |->
                      spreadAt(h, elems[CHOOSE i \in DOMAIN elems : hit(i) /\ rank(i) = k].v,
                               updates)]
        mapped == [i \in DOMAIN elems |->
                      Elem(IF hit(i) THEN Len(h) + rank(i) ELSE elems[i].v)]
    IN [heap |-> h \o merged \o <<JArr(mapped)>>, at |-> Len(h) + n + 1]

\* parseValue, lines 64-89, on text: a text is the sequence of its characters.
\* The characters trim() strips, and those JSON.parse skips, among the
\* characters entered.
Whitespace == {" ", "\t", "\n"}

Digits == {"0", "1", "2", "3", "4", "5", "6", "7", "8", "9"}

JBool(b) == [t |-> "bool", s |-> IF b THEN "true" ELSE "false", kids |-> <<>>]

\* The string of a text.
RECURSIVE StringOf(_)
StringOf(s) == IF s = <<>> THEN "" ELSE Head(s) \o StringOf(Tail(s))

RECURSIVE trimStart(_)
trimStart(s) == IF s # <<>> /\ Head(s) \in Whitespace THEN trimStart(Tail(s)) ELSE s

RECURSIVE trimEnd(_)
trimEnd(s) ==
    IF s # <<>> /\ s[Len(s)] \in Whitespace THEN trimEnd(SubSeq(s, 1, Len(s) - 1)) ELSE s

\* String.prototype.trim
trim(s) == trimEnd(trimStart(s))

startsWith(s, p) == Len(p) <= Len(s) /\ SubSeq(s, 1, Len(p)) = p

endsWith(s, p) == Len(p) <= Len(s) /\ SubSeq(s, Len(s) - Len(p) + 1, Len(s)) = p

Drop(s, n) == SubSeq(s, n + 1, Len(s))

\* The longest run of digits a text begins with.
RECURSIVE LeadingDigits(_)
LeadingDigits(s) ==
    IF s # <<>> /\ Head(s) \in Digits THEN <<Head(s)>> \o LeadingDigits(Tail(s)) ELSE <<>>

AllDigits(s) == s # <<>> /\ \A i \in DOMAIN s : s[i] \in Digits

\* /^-?\d+(\.\d+)?$/.test(s), line 75.
testNumber(s) ==
    LET u == IF s # <<>> /\ Head(s) = "-" THEN Tail(s) ELSE s
        whole == LeadingDigits(u)
        after == Drop(u, Len(whole))
    IN /\ whole # <<>>
       /\ \/ after = <<>>
          \/ Head(after) = "." /\ AllDigits(Tail(after))

DigitValue(c) == CHOOSE n \in 0..9 : ToString(n) = c

RECURSIVE NatOf(_)
NatOf(s) == IF s = <<>> THEN 0 ELSE NatOf(SubSeq(s, 1, Len(s) - 1)) * 10 + DigitValue(s[Len(s)])

Zeros(n) == [i \in 1..n |-> "0"]

RECURSIVE dropLeadingZeros(_)
dropLeadingZeros(s) ==
    IF Len(s) > 1 /\ Head(s) = "0" THEN dropLeadingZeros(Tail(s)) ELSE s

RECURSIVE dropTrailingZeros(_)
dropTrailingZeros(s) ==
    IF s # <<>> /\ s[Len(s)] = "0" THEN dropTrailingZeros(SubSeq(s, 1, Len(s) - 1)) ELSE s

\* The number written as  [-] whole [. fraction] [e exponent], as
\* JSON.stringify prints it (texts of a few characters: no rounding, no
\* exponent in the print; -0 prints as 0).
NumberOf(negative, whole, fraction, exponent) ==
    LET all == whole \o fraction
        point == Len(whole) + exponent
        int == IF point <= 0 THEN <<"0">>
               ELSE IF point >= Len(all) THEN all \o Zeros(point - Len(all))
               ELSE SubSeq(all, 1, point)
        frac == IF point <= 0 THEN Zeros(0 - point) \o all
                ELSE IF point >= Len(all) THEN <<>>
                ELSE Drop(all, point)
        i == dropLeadingZeros(int)
        f == dropTrailingZeros(frac)
        zero == i = <<"0">> /\ f = <<>>
    IN JNum(StringOf((IF negative /\ ~zero THEN <<"-">> ELSE <<>>)
                     \o i \o (IF f = <<>> THEN <<>> ELSE <<".">> \o f)))

\* Number(s), for a text the test of line 75 accepts.
Number(s) ==
    LET negative == Head(s) = "-"
        u == IF negative THEN Tail(s) ELSE s
        whole == LeadingDigits(u)
        after == Drop(u, Len(whole))
    IN NumberOf(negative, whole, IF after = <<>> THEN <<>> ELSE Tail(after), 0)

\* JSON.parse on text: a value and the text left, or a SyntaxError.
SyntaxError == [ok |-> FALSE, val |-> Undefined, rest |-> <<>>]

Parsed(val, rest) == [ok |-> TRUE, val |-> val, rest |-> rest]

\* A string after its opening quote: up to the next quote, no control
\* character allowed inside (the characters entered hold no backslash).
parseJsonString(s) ==
    IF \A i \in DOMAIN s : s[i] # "\"" THEN SyntaxError
    ELSE LET close == CHOOSE i \in DOMAIN s :
                          s[i] = "\"" /\ \A j \in 1..(i - 1) : s[j] # "\""
             body == SubSeq(s, 1, close - 1)
         IN IF \E i \in DOMAIN body : body[i] \in {"\t", "\n"} THEN SyntaxError
            ELSE Parsed(JStr(StringOf(body)), Drop(s, close))

\* A number: -? (0 | [1-9] digits) (. digits+)? ([eE] [+-]? digits+)?
parseJsonNumber(s) ==
    LET negative == Head(s) = "-"
        u == IF negative THEN Tail(s) ELSE s
        whole == IF u # <<>> /\ Head(u) = "0" THEN <<"0">> ELSE LeadingDigits(u)
        a == Drop(u, Len(whole))
        hasFraction == a # <<>> /\ Head(a) = "."
        fraction == IF hasFraction THEN LeadingDigits(Tail(a)) ELSE <<>>
        b == IF hasFraction THEN Drop(a, 1 + Len(fraction)) ELSE a
        hasExponent == b # <<>> /\ Head(b) \in {"e", "E"}
        c == IF hasExponent THEN Tail(b) ELSE b
        sign == IF hasExponent /\ c # <<>> /\ Head(c) \in {"+", "-"} THEN <<Head(c)>> ELSE <<>>
        power == IF hasExponent THEN LeadingDigits(Drop(c, Len(sign))) ELSE <<>>
        rest == IF hasExponent THEN Drop(c, Len(sign) + Len(power)) ELSE b
    IN IF whole = <<>> \/ (hasFraction /\ fraction = <<>>) \/ (hasExponent /\ power = <<>>)
       THEN SyntaxError
       ELSE Parsed(NumberOf(negative, whole, fraction,
                            IF sign = <<"-">> THEN 0 - NatOf(power) ELSE NatOf(power)),
                   rest)

\* The one element of a set of one element.
The(S) == CHOOSE x \in S : TRUE

RECURSIVE parseJsonValue(_)
RECURSIVE parseJsonElements(_, _)
RECURSIVE parseJsonMembers(_, _)
parseJsonValue(text) ==
    The({IF s = <<>> THEN SyntaxError
         ELSE IF Head(s) = "[" THEN
             (IF trimStart(Tail(s)) # <<>> /\ Head(trimStart(Tail(s))) = "]"
              THEN Parsed(JArr(<<>>), Tail(trimStart(Tail(s))))
              ELSE parseJsonElements(Tail(s), <<>>))
         ELSE IF Head(s) = "{" THEN
             (IF trimStart(Tail(s)) # <<>> /\ Head(trimStart(Tail(s))) = "}"
              THEN Parsed(JObj(<<>>), Tail(trimStart(Tail(s))))
              ELSE parseJsonMembers(Tail(s), JObj(<<>>)))
         ELSE IF Head(s) = "\"" THEN parseJsonString(Tail(s))
         ELSE IF startsWith(s, <<"t", "r", "u", "e">>) THEN Parsed(JBool(TRUE), Drop(s, 4))
         ELSE IF startsWith(s, <<"f", "a", "l", "s", "e">>) THEN Parsed(JBool(FALSE), Drop(s, 5))
         ELSE IF startsWith(s, <<"n", "u", "l", "l">>) THEN Parsed(JNull, Drop(s, 4))
         ELSE IF Head(s) \in Digits \cup {"-"} THEN parseJsonNumber(s)
         ELSE SyntaxError : s \in {trimStart(text)}})

\* The elements after "[" or ",": a value, then "," or "]".
parseJsonElements(text, done) ==
    The({The({IF ~element.ok \/ s = <<>> THEN SyntaxError
              ELSE IF Head(s) = ","
              THEN parseJsonElements(Tail(s), Append(done, Elem(element.val)))
              ELSE IF Head(s) = "]"
              THEN Parsed(JArr(Append(done, Elem(element.val))), Tail(s))
              ELSE SyntaxError : s \in {trimStart(element.rest)}})
            : element \in {parseJsonValue(text)}})

\* The members after "{" or ",": a string, ":", a value, then "," or "}".
\* A name given twice keeps its first place and its last value (the names
\* entered are not array indexes).
parseJsonMembers(text, done) ==
    The({The({The({IF ~member.ok \/ r = <<>> THEN SyntaxError
                   ELSE IF Head(r) = ","
                   THEN parseJsonMembers(Tail(r), Assign(done, name.val.s, member.val))
                   ELSE IF Head(r) = "}"
                   THEN Parsed(Assign(done, name.val.s, member.val), Tail(r))
                   ELSE SyntaxError : r \in {trimStart(member.rest)}})
                 : member \in {IF name.ok /\ trimStart(name.rest) # <<>>
                                    /\ Head(trimStart(name.rest)) = ":"
                                THEN parseJsonValue(Tail(trimStart(name.rest)))
                                ELSE SyntaxError}})
            : name \in {IF trimStart(text) # <<>> /\ Head(trimStart(text)) = "\""
                         THEN parseJsonString(Tail(trimStart(text)))
                         ELSE SyntaxError}})

\* JSON.parse(text): nothing but whitespace may follow the value.
JSONparseText(text) ==
    The({IF r.ok /\ trimStart(r.rest) = <<>> THEN r ELSE SyntaxError
            : r \in {parseJsonValue(text)}})

\* What a call gives: a value, or an exception.
Gives(val) == [threw |-> FALSE, val |-> val]

Throws == [threw |-> TRUE, val |-> Undefined]

bracketed(s) ==
    \/ startsWith(s, <<"{">>) /\ endsWith(s, <<"}">>)
    \/ startsWith(s, <<"[">>) /\ endsWith(s, <<"]">>)

\* A variant without the try/catch around JSON.parse.
parseValueNoCatch(input) ==
    LET trimmed == trim(input)
    IN IF trimmed = <<"t", "r", "u", "e">> THEN Gives(JBool(TRUE))
       ELSE IF trimmed = <<"f", "a", "l", "s", "e">> THEN Gives(JBool(FALSE))
       ELSE IF trimmed = <<"n", "u", "l", "l">> THEN Gives(JNull)
       ELSE IF testNumber(trimmed) THEN Gives(Number(trimmed))
       ELSE IF bracketed(trimmed)
       THEN (IF JSONparseText(trimmed).ok THEN Gives(JSONparseText(trimmed).val) ELSE Throws)
       ELSE Gives(JStr(StringOf(trimmed)))

\* parseValue, lines 64-89.
parseValue(input) ==
    LET trimmed == trim(input)
    IN IF trimmed = <<"t", "r", "u", "e">> THEN Gives(JBool(TRUE))
       ELSE IF trimmed = <<"f", "a", "l", "s", "e">> THEN Gives(JBool(FALSE))
       ELSE IF trimmed = <<"n", "u", "l", "l">> THEN Gives(JNull)
       ELSE IF testNumber(trimmed) THEN Gives(Number(trimmed))
       ELSE IF bracketed(trimmed) /\ JSONparseText(trimmed).ok
       THEN Gives(JSONparseText(trimmed).val)
       ELSE Gives(JStr(StringOf(trimmed)))

(***************************************************************************)
(* The library called on its own: a settings document, a template and an   *)
(* index collection are parsed from their files; each call's result is the *)
(* document (or the collection) the next call is given.                    *)
(***************************************************************************)
CharLore(name, book) ==
    JObj(<<Member("name", JStr(name)), Member("extraBooks", JArr(<<Elem(JStr(book))>>))>>)

\* The settings documents read.
LibDocs ==
    {Settings0,
     JObj(<<Member("theme", JStr("light")),
            Member("world_info_settings",
                   JObj(<<Member("world_info",
                                 JObj(<<Member("charLore",
                                               JArr(<<Elem(CharLore("X", "old")),
                                                      Elem(CharLore("Y", "old")),
                                                      Elem(CharLore("X", "older"))>>))>>))>>))>>),
     JObj(<<Member("theme", JArr(<<Elem(JStr("a"))>>)),
            Member("world_info", JArr(<<Elem(JStr("x"))>>)),
            Member("world_info_settings", JStr("none"))>>),
     JObj(<<Member("world_info_settings",
                   JObj(<<Member("world_info",
                                 JObj(<<Member("charLore",
                                               JObj(<<Member("name", JStr("X"))>>))>>))>>))>>)}

\* The golden template.
LibTemplate ==
    JObj(<<Member("theme", JStr("gold")),
           Member("world_info", JObj(<<Member("globalSelect", JArr(<<Elem(JStr("G"))>>))>>)),
           Member("world_info_settings", JObj(<<Member("world_info", JObj(<<>>))>>))>>)

\* The index collections read.
LibIndexes ==
    {JArr(<<>>), JArr(<<IndexEntry("a", "world"), IndexEntry("b", "character")>>)}

\* The directive lists the operator enters.
LibMutations ==
    {<<[path |-> <<"theme">>, value |-> JStr("dark")]>>,
     <<[path |-> <<"world_info", "globalSelect">>, value |-> JArr(<<Elem(JStr("B"))>>)]>>,
     <<[path |-> <<"world_info_settings", "mode">>, value |-> JNum("1")],
       [path |-> <<"theme">>, value |-> JNull]>>,
     <<[path |-> <<"extra">>, value |-> JObj(<<Member("k", JNum("1"))>>)],
       [path |-> <<"extra", "k">>, value |-> JNum("2")]>>,
     <<[path |-> <<"theme", "shade">>, value |-> JStr("x")],
       [path |-> <<"theme">>, value |-> JStr("a")],
       [path |-> <<"theme">>, value |-> JStr("b")]>>}

\* The path lists the operator selects.
LibKeys ==
    {<<<<"theme">>>>, <<<<"world_info">>>>, <<<<"world_info", "globalSelect">>>>,
     <<<<"world_info_settings", "world_info">>>>, <<<<"missing">>>>,
     <<<<"theme", "shade">>>>, <<<<"theme">>, <<"world_info", "missing">>>>,
     <<<<"world_info_settings">>, <<"world_info_settings", "world_info", "charLore">>>>}

LibEntries == {CharLore(name, book) : name \in {"X", "Z"}, book \in {"L1", "L2"}}

LibRecords == {IndexEntry(filename, type).v : filename \in {"a", "c"}, type \in {"world", "character"}}

LibRemovals == {{"a"}, {"c"}, {"a", "b"}, {"b", "zz"}}

\* The patches of updateEntry: a field changed, a field added, the filename
\* changed (to one that may be another record's), nothing.
LibPatches ==
    {JObj(<<Member("type", JStr("character"))>>),
     JObj(<<Member("note", JStr("n")), Member("type", JStr("world"))>>),
     JObj(<<Member("filename", JStr("b"))>>),
     JObj(<<>>)}

LibFilenames == {"a", "c", "zz"}

\* The texts the operator types at the value prompt: every text of at most
\* MaxChars characters over the characters of numbers and brackets, and a
\* list of longer ones.
MaxChars == 4

TypedChars == {"[", "]", "{", "}", "0", "1", ",", ".", "-", " "}

TypedTexts ==
    {<<"t", "r", "u", "e">>,
     <<"f", "a", "l", "s", "e">>,
     <<"n", "u", "l", "l">>,
     <<" ", "t", "r", "u", "e", " ">>,
     <<"T", "r", "u", "e">>,
     <<"t", "r", "u", "e", "f", "a", "l", "s", "e">>,
     <<"n", "u", "l", "l", "s">>,
     <<"4", "2">>,
     <<"-", "7">>,
     <<"3", ".", "1", "4">>,
     <<"-", "0", ".", "5", "0">>,
     <<"0", "0", "7">>,
     <<"1", "e", "5">>,
     <<"+", "5">>,
     <<"5", ".">>,
     <<".", "5">>,
     <<"-">>,
     <<"4", " ", "2">>,
     <<"[", "1", ",", "2", "]">>,
     <<"[", "1", ",", "2">>,
     <<"{", "\"", "a", "\"", ":", "1", "}">>,
     <<"{", "\"", "a", "\"", ":", "[", "t", "r", "u", "e", ",", "n", "u", "l", "l", "]", "}">>,
     <<"{", "a", ":", "1", "}">>,
     <<"[", "1", ",", "2", "]", "x">>,
     <<"[", "1", " ", ",", " ", "\"", "a", " ", "b", "\"", "]">>,
     <<"h", "e", "l", "l", "o">>,
     <<"\"", "x", "\"">>,
     <<"[", "0", "1", "]">>,
     <<"[", "1", "e", "2", "]">>,
     <<"[", "1", ".", "5", "e", "-", "1", "]">>,
     <<"[", "-", "]">>,
     <<"[", "t", "r", "u", "]">>,
     <<"{", "\"", "a", "\"", ":", "1", ",", "\"", "a", "\"", ":", "2", "}">>,
     <<"{", "\"", "a", "\"", ":", "{", "\"", "b", "\"", ":", "\"", "c", "\"", "}", "}">>,
     <<"{", "\"", "a", "\"", ":", "1", ",", "}">>,
     <<"[", "\"", "a", "\t", "b", "\"", "]">>,
     <<"[", " ", "1", ",", "\n", "2", " ", "]">>,
     <<"\t", "[", "f", "a", "l", "s", "e", "]", "\n">>,
     <<"{", "\"", "a", "\"", "}">>,
     <<"{", "\"", "a", "\"", ":", "}">>,
     <<"[", "[", "]", ",", "{", "}", "]">>,
     <<"[", "1", ",", "2", "}">>}

ParseInputs == TypedTexts \cup UNION {[1..n -> TypedChars] : n \in 0..MaxChars}


AtLibCall == Len(mem.log) < MaxLibCalls

AtIndexCall == Len(mem.log) < MaxIndexCalls

\* parseValue's objects: one per directive; [heap, list].
RECURSIVE parseValues(_, _, _)
parseValues(h, mutations, done) ==
    IF mutations = <<>> THEN [heap |-> h, list |-> done]
    ELSE LET value == JSONparse(h, Head(mutations).value)
         IN parseValues(value.heap, Tail(mutations),
                        Append(done, [path |-> Head(mutations).path, value |-> value.at]))

\* What a call on the settings document leaves behind.
LibCalled(fn, args, r) ==
    /\ mem' = [mem EXCEPT !.heap = r.heap, !.fn = fn, !.doc = mem.cur, !.out = r.at,
                          !.cur = r.at, !.args = args, !.log = Append(@, fn)]
    /\ UNCHANGED <<batchVars, fsVars, warned, dialog>>

\* What a call on the index collection leaves behind.
LibIndexCalled(fn, args, r) ==
    /\ mem' = [mem EXCEPT !.heap = r.heap, !.fn = fn, !.doc = mem.index, !.out = r.at,
                          !.index = r.at, !.args = args, !.log = Append(@, fn)]
    /\ UNCHANGED <<batchVars, fsVars, warned, dialog>>

LibApplyMutations ==
    /\ AtLibCall
    /\ \E mutations \in LibMutations :
          LET values == parseValues(mem.heap, mutations, <<>>)
          IN LibCalled("applyMutations", [NoArgs EXCEPT !.mutations = mutations],
                       applyMutationsAt(values.heap, mem.cur, values.list))

LibSyncSections ==
    /\ AtLibCall
    /\ \E keys \in LibKeys :
          LibCalled("syncSections", [NoArgs EXCEPT !.keys = keys],
                    syncSectionsAt(mem.heap, mem.cur, mem.tpl, keys))

LibAddCharLore ==
    /\ AtLibCall
    /\ \E entry \in LibEntries :
          LET e == JSONparse(mem.heap, entry)
          IN LibCalled("addCharLore", [NoArgs EXCEPT !.entry = entry],
                       addCharLoreAt(e.heap, mem.cur, e.at))

\* The lorebook names and list paths the operator enters.
LibLorebooks == {"A", "N"}

LibListKeys == {<<"world_info", "globalSelect">>, <<"theme">>}

LibLinkLorebook ==
    /\ AtLibCall
    /\ \E settingsKey \in LibListKeys, lorebookName \in LibLorebooks :
          LibCalled("linkLorebook",
                    [NoArgs EXCEPT !.key = settingsKey, !.name = lorebookName],
                    linkLorebookAt(mem.heap, mem.cur, settingsKey, lorebookName))

LibAddEntry ==
    /\ AtIndexCall
    /\ \E entry \in LibRecords :
          LET e == JSONparse(mem.heap, entry)
          IN LibIndexCalled("addEntry", [NoArgs EXCEPT !.entry = entry],
                            addEntryAt(e.heap, mem.index, e.at))

LibRemoveEntries ==
    /\ AtIndexCall
    /\ \E filenames \in LibRemovals :
          LibIndexCalled("removeEntries", [NoArgs EXCEPT !.filenames = filenames],
                         removeEntriesAt(mem.heap, mem.index, filenames))

LibUpdateEntry ==
    /\ AtIndexCall
    /\ \E filename \in LibFilenames, updates \in LibPatches :
          LET u == JSONparse(mem.heap, updates)
          IN LibIndexCalled("updateEntry",
                            [NoArgs EXCEPT !.filename = filename, !.updates = updates],
                            updateEntryAt(u.heap, mem.index, filename, u.at))

\* parseValue called once on a text; the value it gives is put on the heap.
LibParseValue ==
    /\ mem.log = <<>>
    /\ \E input \in ParseInputs :
          LET r == parseValue(input)
              v == JSONparse(mem.heap, r.val)
          IN /\ mem' = [mem EXCEPT !.heap = v.heap, !.fn = "parseValue", !.out = v.at,
                                   !.threw = r.threw, !.args = [NoArgs EXCEPT !.input = input],
                                   !.log = Append(@, "parseValue")]
             /\ UNCHANGED <<batchVars, fsVars, warned, dialog>>

InitLib(docs, indexes) ==
    /\ pc = "menu"
    /\ job = NoJob
    /\ users = <<>>
    /\ idx = 1
    /\ inflight = FALSE
    /\ pending = NoOutcome
    /\ results = EmptyResults
    /\ ret = "none"
    /\ calls = <<>>
    /\ hist = <<>>
    /\ fs = InitialFs("full", "bare")
    /\ now = 0
    /\ dryRun = FALSE
    /\ nops = 0
    /\ edIndex = <<>>
    /\ returned = NoPath
    /\ trace = <<>>
    /\ fs0 = fs
    /\ env = NoEnv
    /\ warned = <<>>
    /\ dialog = NoDialog
    /\ \E settings \in docs, index \in indexes :
          LET d == JSONparse(<<>>, settings)
              t == JSONparse(d.heap, LibTemplate)
              i == JSONparse(t.heap, index)
          IN mem = [NoMem EXCEPT !.heap = i.heap, !.cur = d.at, !.tpl = t.at, !.index = i.at]

InitMerge == InitLib(LibDocs, {JArr(<<>>)})

NextMerge == LibApplyMutations \/ LibSyncSections \/ LibAddCharLore \/ LibLinkLorebook

SpecMerge == InitMerge /\ [][NextMerge]_vars

InitIndex == InitLib({Settings0}, LibIndexes)

NextIndex == LibAddEntry \/ LibRemoveEntries \/ LibUpdateEntry

SpecIndex == InitIndex /\ [][NextIndex]_vars

InitParse == InitLib({Settings0}, {JArr(<<>>)})

NextParse == LibParseValue

SpecParse == InitParse /\ [][NextParse]_vars

(***************************************************************************)
(* The prompts of a module run, one at a time: bulk-settings' setKeyValues *)
(* (part_002, lines 36-88) and addCharLore (lines 265-308), and            *)
(* push-characters' scaffoldPush (lines 56-109).  A prompt is answered or  *)
(* cancelled; a cancelled prompt returns a symbol.                         *)
(***************************************************************************)
\* Bound: the entries the operator gives a collecting loop.
MaxItems == 2

\* What the operator types.
DialogPaths == {<<"theme">>}

DialogValues == {<<"d", "a", "r", "k">>, <<"4", "2">>}

DialogNames == {"C"}

DialogBooks == {"L"}

\* What a step of a module's prompts leaves behind; the module has
\* returned when no prompt is open.
DialogStep(d, w) ==
    /\ dialog' = d
    /\ fs' = w.fs
    /\ trace' = w.tr
    /\ pc' = IF d.at = "none" THEN "menu" ELSE "dialog"
    /\ nops' = IF d.at = "none" THEN nops + 1 ELSE nops
    /\ UNCHANGED <<job, users, idx, inflight, pending, results, ret, calls, hist, now, dryRun, edIndex, returned, fs0, env, warned, mem>>

\* run, part_002 lines 355-371 and push-characters.js lines 130-145: the
\* mode is selected and the mode's first prompt opens.
DialogOpen ==
    /\ AtMenu
    /\ \E mode \in {"keys", "charlore", "scaffold"} :
          DialogStep([NoDialog EXCEPT
                         !.mode = mode,
                         !.at = CASE mode = "keys" -> "path"
                                  [] mode = "charlore" -> "charName"
                                  [] mode = "scaffold" -> "sourcePath"],
                     World(fs, 0))

\* Lines 73 and 293: nothing collected, nothing to do.
Collected(d) == IF d.items = <<>> THEN [d EXCEPT !.at = "none"] ELSE [d EXCEPT !.at = "users"]

\* collectMutations, lines 40-50: a key, or nothing to finish the list
\* (validate refuses nothing while the list is empty).
AnswerPath ==
    /\ pc = "dialog"
    /\ dialog.at = "path"
    /\ \/ /\ Len(dialog.items) < MaxItems
          /\ \E path \in DialogPaths :
                DialogStep([dialog EXCEPT !.at = "value", !.path = path], World(fs, 0))
       \/ /\ dialog.items # <<>>
          /\ DialogStep(Collected(dialog), World(fs, 0))

\* collectMutations, lines 52-61: the value typed is parsed and the
\* directive pushed.
AnswerValue ==
    /\ pc = "dialog"
    /\ dialog.at = "value"
    /\ \E text \in DialogValues :
          DialogStep([dialog EXCEPT
                         !.at = "path",
                         !.items = Append(@, [path |-> dialog.path,
                                              value |-> parseValue(text).val])],
                     World(fs, 0))

\* addCharLore, lines 269-273.
AnswerCharName ==
    /\ pc = "dialog"
    /\ dialog.at = "charName"
    /\ \E name \in DialogNames :
          DialogStep([dialog EXCEPT !.at = "book", !.name = name], World(fs, 0))

\* addCharLore, lines 277-293: a lorebook name, or nothing to finish.
AnswerBook ==
    /\ pc = "dialog"
    /\ dialog.at = "book"
    /\ \/ /\ Len(dialog.items) < MaxItems
          /\ \E book \in DialogBooks :
                DialogStep([dialog EXCEPT !.items = Append(@, book)], World(fs, 0))
       \/ /\ dialog.items # <<>>
          /\ DialogStep(Collected(dialog), World(fs, 0))

\* scaffoldPush, lines 57-68: validate accepts an existing .png.
AnswerSourcePath ==
    /\ pc = "dialog"
    /\ dialog.at = "sourcePath"
    /\ existsSync(fs, cardPath)
    /\ DialogStep([dialog EXCEPT !.at = "target", !.path = cardPath], World(fs, 0))

\* scaffoldPush, lines 70-96: the index is chosen; the card is copied and
\* indexed before the next prompt.
AnswerTarget ==
    /\ pc = "dialog"
    /\ dialog.at = "target"
    /\ \E targetDir \in {scaffoldDir, contentDir} :
          DialogStep([dialog EXCEPT !.at = "pushNow"],
                     ScaffoldPushIndex(World(fs, 0), dialog.path, targetDir, dryRun))

\* scaffoldPush, lines 99-106.
AnswerPushNow ==
    /\ pc = "dialog"
    /\ dialog.at = "pushNow"
    /\ \E pushNow \in BOOLEAN :
          DialogStep([dialog EXCEPT !.at = IF pushNow THEN "users" ELSE "none"], World(fs, 0))

\* The unit-operation closure of the mode, over what was collected.
DialogJob(d) ==
    CASE d.mode = "keys" -> [NoJob EXCEPT !.kind = "keys", !.mutations = d.items]
      [] d.mode = "charlore" ->
            [NoJob EXCEPT !.kind = "charlore", !.key = CHARLORE_PATH,
                          !.entry = JObj(<<Member("name", JStr(d.name)),
                                           Member("extraBooks",
                                                  JArr([i \in DOMAIN d.items |->
                                                           Elem(JStr(d.items[i]))]))>>)]
      [] d.mode = "scaffold" -> [NoJob EXCEPT !.kind = "push", !.source = d.path]

\* selectUsers answered (lines 81-82, 302-303; push-characters.js 108-111,
\* where the batch starts at once).
AnswerUsers ==
    /\ pc = "dialog"
    /\ dialog.at = "users"
    /\ \E us \in selectUsers(fs) :
          IF dialog.mode = "scaffold"
          THEN StartBatch(us, DialogJob(dialog), fs, warned)
          ELSE DialogStep([dialog EXCEPT !.at = "proceed", !.users = us], World(fs, 0))

\* The confirm of lines 84-89 and 305-310: yes starts the batch.
AnswerProceed ==
    /\ pc = "dialog"
    /\ dialog.at = "proceed"
    /\ \E proceed \in BOOLEAN :
          IF proceed
          THEN StartBatch(dialog.users, DialogJob(dialog), fs, warned)
          ELSE DialogStep([dialog EXCEPT !.at = "none"], World(fs, 0))

\* The prompt open returns the cancel symbol.  collectMutations returns
\* the directives collected so far (lines 49, 56) and the extraBooks loop
\* breaks (line 287): with something collected the module goes on to
\* selectUsers; every other prompt makes the module return.
CancelPrompt ==
    /\ pc = "dialog"
    /\ dialog.at # "none"
    /\ DialogStep(IF dialog.at \in {"path", "value", "book"}
                  THEN [Collected(dialog) EXCEPT !.cancelled = TRUE]
                  ELSE [dialog EXCEPT !.at = "none", !.cancelled = TRUE],
                  World(fs, 0))

InitPrompt ==
    /\ InitBatch
    /\ dryRun = FALSE

NextPrompt ==
    \/ DialogOpen
    \/ AnswerPath
    \/ AnswerValue
    \/ AnswerCharName
    \/ AnswerBook
    \/ AnswerSourcePath
    \/ AnswerTarget
    \/ AnswerPushNow
    \/ AnswerUsers
    \/ AnswerProceed
    \/ CancelPrompt
    \/ UnitCall
    \/ Settle
    \/ BatchReturn

SpecPrompt == InitPrompt /\ [][NextPrompt]_vars


(***************************************************************************)
(* The Snapshot Store on its own: backup.js's three functions called on    *)
(* any source, present or not, at any second.                              *)
(***************************************************************************)
BackupSources ==
    {userSettingsPath(dataRoot, h) : h \in Range(Handles)}
    \cup {userContentLogPath(dataRoot, h) : h \in Range(Handles)}
    \cup {scaffoldIndexPath(scaffoldDir), scaffoldIndexPath(contentDir)}

BackupDirs == {SnapshotArea(dataRoot, h) : h \in Range(Handles)} \cup {backupRoot}

\* What a direct call leaves behind.
Called(kind, source, dir, dry, w) ==
    /\ nops' = nops + 1
    /\ job' = [NoJob EXCEPT !.kind = kind, !.source = source, !.dir = dir, !.dry = dry]
    /\ fs' = w.fs
    /\ fs0' = fs
    /\ trace' = w.tr
    /\ returned' = w.val
    /\ UNCHANGED <<pc, users, idx, inflight, pending, results, ret, calls, hist>>
    /\ UNCHANGED <<now, dryRun, edIndex, env>>
    /\ UNCHANGED libVars

CallBackupFile ==
    /\ AtMenu
    /\ \E filePath \in BackupSources, backupDir \in BackupDirs :
       Called("backupFile", filePath, backupDir, FALSE,
              backupFile(World(fs, 0), filePath, backupDir, now))

CallBackupUserFile ==
    /\ AtMenu
    /\ \E h \in Range(Handles), rel \in {<<"settings.json">>, <<"content.log">>}, dry \in BOOLEAN :
       Called("backupUserFile", join(dataRoot, <<h>> \o rel), SnapshotArea(dataRoot, h), dry,
              backupUserFile(World(fs, 0), dataRoot, h, rel, dry, now))

CallBackupToAdmin ==
    /\ AtMenu
    /\ \E filePath \in BackupSources, dry \in BOOLEAN :
       Called("backupToAdmin", filePath, backupRoot, dry,
              backupToAdmin(World(fs, 0), backupRoot, filePath, "scaffold-index", dry, now))

InitBackup == InitBatch

NextBackup == CallBackupFile \/ CallBackupUserFile \/ CallBackupToAdmin \/ Tick

SpecBackup == InitBackup /\ [][NextBackup]_vars

(***************************************************************************)
(* Claims about batchOperation, checked under SpecBatch.                   *)
(***************************************************************************)
BatchReturned == pc = "menu" /\ ret = "returned"

IsThrow(h) == h.o.k = "throw"
IsSkipMarker(h) == h.o.k = "return" /\ h.o.obj /\ h.o.skipped # ""
IsPlainReturn(h) == h.o.k = "return" /\ ~(h.o.obj /\ h.o.skipped # "")

InList(list, h) == \E i \in DOMAIN list : list[i].handle = h

\* C1: when the operation throws for a unit, batchOperation records that unit
\* in `failed` with the error's message, still invokes the operation on every
\* later unit of the list, and returns its report: no exception leaves it.
C1_ThrowIsRecordedAndBatchContinues ==
    /\ ret # "threw"
    /\ \A i \in DOMAIN hist :
          IsThrow(hist[i]) =>
             \E j \in DOMAIN results.failed :
                results.failed[j] = [handle |-> hist[i].handle, error |-> hist[i].o.msg]
    /\ BatchReturned => calls = users
    /\ (pc = "batch" /\ ~inflight /\ hist # <<>> /\ IsThrow(hist[Len(hist)]))
          => idx = Len(hist) + 1

\* C1 witness: three units, the second throws, the batch has returned with
\* succeeded = [u1, u3] and failed = [{u2, message}].
C1_Witness ==
    /\ BatchReturned
    /\ Len(users) = 3
    /\ Len(hist) = 3
    /\ IsThrow(hist[2])
    /\ results.success = <<users[1], users[3]>>
    /\ results.failed = <<[handle |-> users[2], error |-> "boom"]>>

\* C4: the operation is invoked exactly once per element of the input list, in
\* input order, and the next invocation starts only after the previous one has
\* settled and its outcome has been recorded.
C4_SequentialInOrder ==
    /\ Len(calls) <= Len(users)
    /\ \A i \in DOMAIN calls : calls[i] = users[i]
    /\ BatchReturned => calls = users
    /\ LET recorded == Len(results.success) + Len(results.skipped) + Len(results.failed)
       IN /\ Len(hist) = recorded
          /\ Len(calls) = recorded + (IF inflight THEN 1 ELSE 0)

\* C4 witness: a batch of three units has returned after three invocations.
C4_Witness ==
    /\ BatchReturned
    /\ Len(users) = 3
    /\ calls = users
    /\ Len(hist) = 3

\* C5: when batchOperation returns, every input unit is in exactly one of the
\* three lists: `skipped` with its reason when the operation returned a skip
\* marker carrying a reason, `failed` when it threw, `success` otherwise; each
\* list is in processing order; for an empty input the operation is never
\* invoked and the three lists are empty.
C5_ReportPartitionsInput ==
    BatchReturned =>
       /\ MapHandle(hist) = users
       /\ results.success = MapHandle(SelectSeq(hist, IsPlainReturn))
       /\ MapHandle(results.skipped) = MapHandle(SelectSeq(hist, IsSkipMarker))
       /\ MapHandle(results.failed) = MapHandle(SelectSeq(hist, IsThrow))
       /\ \A i \in DOMAIN hist :
             /\ IsSkipMarker(hist[i]) =>
                   \E j \in DOMAIN results.skipped :
                      results.skipped[j] = [handle |-> hist[i].handle, reason |-> hist[i].o.skipped]
             /\ IsThrow(hist[i]) =>
                   \E j \in DOMAIN results.failed :
                      results.failed[j] = [handle |-> hist[i].handle, error |-> hist[i].o.msg]
       /\ \A u \in Range(users) :
             Cardinality({l \in {"success", "skipped", "failed"} :
                            \/ l = "success" /\ u \in Range(results.success)
                            \/ l = "skipped" /\ InList(results.skipped, u)
                            \/ l = "failed" /\ InList(results.failed, u)}) = 1
       /\ Len(results.success) + Len(results.skipped) + Len(results.failed) = Len(users)
       /\ users = <<>> => calls = <<>> /\ results = EmptyResults

\* C5 witness: a returned batch with one unit in each list, and a unit whose
\* skip marker carried no reason counted as a success.
C5_Witness ==
    /\ BatchReturned
    /\ Len(users) = 3
    /\ Len(results.skipped) = 1
    /\ Len(results.failed) = 1
    /\ Len(results.success) = 1
    /\ \E i \in DOMAIN hist : hist[i].o = Skip("")

(***************************************************************************)
(* Claims about the Snapshot Store, checked under SpecBackup.              *)
(***************************************************************************)
BackupKinds == {"backupFile", "backupUserFile", "backupToAdmin"}

Mutating(e) == e.op # "snapshot"

\* C9: when the source file does not exist, backupFile, backupUserFile and
\* backupToAdmin return null and create no file and no directory: the
\* filesystem after the call is the filesystem before it, and no mutating
\* filesystem call was made.
C9_MissingSourceReturnsNull ==
    (job.kind \in BackupKinds /\ ~existsSync(fs0, job.source)) =>
       /\ returned = NoPath
       /\ fs = fs0
       /\ \A i \in DOMAIN trace : ~Mutating(trace[i])

\* C9 witness: backupToAdmin was called in a real run on an index file that
\* does not exist; the backup root was not created.
C9_Witness ==
    /\ job.kind = "backupToAdmin"
    /\ ~job.dry
    /\ job.source = scaffoldIndexPath(contentDir)
    /\ ~existsSync(fs0, job.source)
    /\ returned = NoPath
    /\ ~lstatExists(fs, backupRoot)

(***************************************************************************)
(* Claims about the tool, checked under Spec.                              *)
(***************************************************************************)
SettingsKinds == {"keys", "template", "lorebook", "charlore"}

\* The files the backup-before-write protocol protects.
Protected(p) ==
    \/ \E h \in Range(Handles) :
          \/ p = userSettingsPath(dataRoot, h)
          \/ p = userContentLogPath(dataRoot, h)
          \/ dirname(p) = userWorldsDir(dataRoot, h)
    \/ p \in {scaffoldIndexPath(scaffoldDir), scaffoldIndexPath(contentDir)}

Destructive(e) == e.op \in {"write", "unlink"} /\ e.was = "file"

\* C2: in a real run, every step that overwrites or deletes an existing
\* protected file (a user's settings document, content log or lorebook, or a
\* scaffold/content index file) has called the Snapshot Store on that file
\* earlier in the same step.
C2_SnapshotBeforeDestructiveWrite ==
    ~dryRun =>
       \A i \in DOMAIN trace :
          (Destructive(trace[i]) /\ Protected(trace[i].path)) =>
             \E j \in 1..(i - 1) :
                trace[j].op = "snapshot" /\ trace[j].path = trace[i].path

\* C3: with the dry-run flag set, no step of any module changes the
\* filesystem or makes a mutating filesystem call.
C3_DryRunMutatesNothing ==
    [][dryRun => (fs' = fs /\ \A i \in DOMAIN trace' : ~Mutating(trace'[i]))]_vars

\* C3 witness: a dry-run symlink batch under replace-all has returned with a
\* user recorded as succeeded whose lorebook was an ordinary file, and the
\* Snapshot Store was called for it.
C3_Witness ==
    /\ dryRun
    /\ BatchReturned
    /\ job.kind = "symlink"
    /\ job.policy = "all"
    /\ results.success # <<>>
    /\ \E i \in DOMAIN trace : trace[i].op = "snapshot" /\ trace[i].was = "file"
    /\ fs = fs0

\* The resource a unit-operation needs is absent.
ResourceAbsent(f, j, h) ==
    CASE j.kind \in SettingsKinds -> ~existsSync(f, userSettingsPath(dataRoot, h))
      [] j.kind = "reset-log" -> ~existsSync(f, userContentLogPath(dataRoot, h))
      [] j.kind = "delete" -> ~existsSync(f, join(dataRoot, <<h, j.subDir, j.filename>>))
      [] j.kind = "backup-ops" -> ~existsSync(f, join(dataRoot, <<h, j.file>>))
      [] j.kind = "symlink" -> ~existsSync(f, j.source)
      [] OTHER -> FALSE

IsSkip(o) == o.k = "return" /\ o.obj /\ o.skipped # ""

\* The step in which operationFn(handle) runs.
UnitRuns == pc = "batch" /\ ~inflight /\ inflight'

\* C6: in every batch, a unit whose resource is absent when its operation
\* runs (no settings.json, no content.log, no file to delete, no source file
\* for a link) settles as skipped.
C6_AbsentResourceIsSkipped ==
    [][(UnitRuns /\ ResourceAbsent(fs, job, users[idx])) => IsSkip(pending')]_vars

\* The same, for every operation but the symlink batch.
C6_ExceptLinkSource ==
    [][(UnitRuns /\ job.kind # "symlink" /\ ResourceAbsent(fs, job, users[idx]))
          => IsSkip(pending')]_vars

Corrupt(f, h) ==
    /\ existsSync(f, userSettingsPath(dataRoot, h))
    /\ ~ReadText(f, userSettingsPath(dataRoot, h)).json

\* A user's settings.json and snapshot area.
SettingsAndSnapshots(f, h) ==
    [p \in {q \in DOMAIN f : \/ q = userSettingsPath(dataRoot, h)
                             \/ q = SnapshotArea(dataRoot, h)
                             \/ Beneath(q, SnapshotArea(dataRoot, h))} |-> f[p]]

\* C7: in every bulk settings batch, a unit whose settings.json exists but
\* does not parse is recorded as failed with the parser's message; no
\* snapshot is taken, nothing is written, and its settings.json and snapshot
\* area stay as they were.
C7_CorruptSettingsFail ==
    job.kind \in SettingsKinds =>
       /\ \A i \in DOMAIN hist :
             Corrupt(fs0, hist[i].handle) =>
                /\ hist[i].o = Threw("Unexpected token in JSON")
                /\ \E n \in DOMAIN results.failed :
                      results.failed[n] = [handle |-> hist[i].handle,
                                           error |-> "Unexpected token in JSON"]
                /\ SettingsAndSnapshots(fs, hist[i].handle)
                      = SettingsAndSnapshots(fs0, hist[i].handle)
       /\ (inflight /\ Corrupt(fs0, users[idx])) =>
             /\ pending = Threw("Unexpected token in JSON")
             /\ trace = <<>>

\* C7 witness: a real bulk settings batch over two users has returned; the
\* user with the corrupt settings.json failed, the other succeeded.
C7_Witness ==
    /\ ~dryRun
    /\ BatchReturned
    /\ job.kind \in SettingsKinds
    /\ Len(hist) = 2
    /\ \E i \in DOMAIN hist : Corrupt(fs0, hist[i].handle)
    /\ Len(results.failed) = 1
    /\ Len(results.success) = 1

\* Everything at or beneath a user's directory.
UserFiles(f, h) ==
    [p \in {q \in DOMAIN f : q = userDir(dataRoot, h) \/ Beneath(q, userDir(dataRoot, h))}
        |-> f[p]]

\* The i-th unit of the batch run alone: on the filesystem the batch began
\* with, under the same clock and fault.
Alone(i) == UnitOp(World(fs0, hist[i].env.k), job, hist[i].handle, dryRun, hist[i].env.t)

IsUnitBatch == job.kind \notin ({"none", "generic"} \cup BackupKinds)

\* C8, first part: the outcome recorded for a unit and the final content of
\* its files are those of running the unit alone.
C8_OutcomeIndependentOfOthers ==
    (IsUnitBatch /\ BatchReturned) =>
       \A i \in DOMAIN hist :
          /\ hist[i].o = OutcomeOf(Alone(i))
          /\ UserFiles(fs, hist[i].handle) = UserFiles(Alone(i).fs, hist[i].handle)

\* C8, second part: a unit-operation for user u changes files only beneath
\* u's own directory.
C8_ChangesOnlyOwnDirectory ==
    (IsUnitBatch /\ inflight) =>
       \A i \in DOMAIN trace :
          Mutating(trace[i]) => Beneath(trace[i].path, userDir(dataRoot, users[idx]))

\* C8: for any batch, the outcome recorded for a unit and the final content
\* of that unit's files depend only on that unit's own initial files and the
\* operation's parameters, not on the other units of the batch; and a
\* unit-operation for user u changes files only beneath u's own directory.
C8_UnitIsolation == C8_OutcomeIndependentOfOthers /\ C8_ChangesOnlyOwnDirectory

\* A path in a snapshot area: a user's admin-snapshots directory, or a
\* scaffold-index directory of the backup root.
IsSnapshot(p) ==
    \/ \E h \in Range(Handles) : Beneath(p, SnapshotArea(dataRoot, h))
    \/ /\ Beneath(p, backupRoot)
       /\ Len(p) = Len(backupRoot) + 2
       /\ \E t \in 0..(MaxTime + 1) : p[Len(backupRoot) + 1] = "scaffold-index-" \o ToString(t)

\* The snapshot's name carries the current second.
StampedNow(p) ==
    \E n \in {"settings.json", "content.log", "L.json", "index.json"} :
       basename(p) = n \o "." \o ToString(now) \o ".bak"

\* A step in which code of the tool runs.
Runs == nops' # nops \/ (inflight' /\ ~inflight)

LinkCall == nops' = nops + 1

\* The target path already holds a link to the source of the call.
LinkedToSource(f, j) == lstatExists(f, j.dir) /\ f[j.dir] = Link(j.source)

\* C11: in a real run createSymlinkForUser returns 'created' exactly when
\* nothing was at the target path and 'replaced' exactly when it removed an
\* existing entry under policy replace-all, and the target is afterwards a
\* symbolic link to the source.
C11_CreatedOrReplaced ==
    (job.kind = "createSymlinkForUser" /\ ~job.dry /\ pending.k = "return") =>
        /\ returned = "created" <=> Kind(fs0, job.dir) = "none"
        /\ returned = "replaced" <=>
              (Kind(fs0, job.dir) # "none" /\ ~LinkedToSource(fs0, job) /\ job.policy = "all")
        /\ returned \in {"created", "replaced"} => LinkedToSource(fs, job)

\* C12: once a real call has put a link to a source at a target path, a
\* later call with that source and target, under either policy, dry-run or
\* not, returns 'already-linked' without a filesystem mutation or a
\* snapshot, and the unit-operation returns the skip marker.
C12_RelinkIsIdempotent ==
    [][(LinkCall /\ LinkedToSource(fs, job')) =>
          /\ returned' = "already-linked"
          /\ fs' = fs
          /\ trace' = <<>>
          /\ job'.kind = "symlink" => pending' = Skip("already symlinked to same source")]_vars

C12_Witness ==
    /\ nops >= 2
    /\ job.kind = "symlink"
    /\ job.policy = "all"
    /\ LinkedToSource(fs0, job)
    /\ returned = "already-linked"
    /\ pending = Skip("already symlinked to same source")

\* C13: under policy skip, a target path holding an ordinary file or a link
\* to another source (a dangling one included) makes createSymlinkForUser
\* return 'skipped'; nothing is removed, replaced or created, and the
\* unit-operation takes no snapshot.
C13_SkipPolicyKeepsTarget ==
    [][(/\ LinkCall
        /\ job'.policy = "skip"
        /\ Kind(fs, job'.dir) \in {"file", "link"}
        /\ ~LinkedToSource(fs, job')) =>
          /\ returned' = "skipped"
          /\ fs' = fs
          /\ trace' = <<>>
          /\ job'.kind = "symlink" => pending' = Skip("existing file preserved")]_vars

C13_Witness ==
    /\ job.kind = "symlink"
    /\ job.policy = "skip"
    /\ Kind(fs0, job.dir) = "link"
    /\ ~existsSync(fs0, job.dir)
    /\ ~LinkedToSource(fs0, job)
    /\ returned = "skipped"
    /\ fs = fs0

\* C14: from every state of the target path and under every policy,
\* createSymlinkForUser returns in a dry run the tag the real call returns.
C14_DryRunTagIsRealTag ==
    (job.kind = "createSymlinkForUser" /\ pending.k = "return") =>
        LET other == createSymlinkForUser(World(fs0, 0), job.source, job.dir,
                                          job.policy, ~job.dry)
        IN other.err = "" => returned = other.val

(***************************************************************************)
(* The seeder conflict (Spec).                                             *)
(***************************************************************************)
\* The scaffold index lists the filename as a lorebook the seeder copies.
ListedAsWorld(f, filename) ==
    \E i \in DOMAIN readIndex(f, scaffoldIndexPath(scaffoldDir)) :
        LET e == readIndex(f, scaffoldIndexPath(scaffoldDir))[i].v
        IN Prop(e, "filename") = JStr(filename) /\ Prop(e, "type") = JStr("world")

SymlinkBatchStarts == pc = "menu" /\ pc' = "batch" /\ job'.kind = "symlink"

\* The filesystem with an empty scaffold index.
WithoutIndex(f) == Put(f, scaffoldIndexPath(scaffoldDir), File(JsonText(JArr(<<>>))))

SameButIndex(f, g) ==
    \A p \in (DOMAIN f \cup DOMAIN g) \ {scaffoldIndexPath(scaffoldDir)} :
        p \in DOMAIN f /\ p \in DOMAIN g /\ f[p] = g[p]

\* C15: for the lorebook selected, the conflict warning is printed, before
\* any symlink of the batch is created, exactly when the scaffold index has
\* an entry with that filename and type 'world'; every unit then does what
\* it does when the index lists nothing.
C15_WarningIsExactAndAdvisory ==
    [][/\ SymlinkBatchStarts =>
             /\ warned' = (IF ListedAsWorld(fs, job'.filename)
                           THEN <<job'.filename>> ELSE <<>>)
             /\ fs' = fs
             /\ calls' = <<>>
       /\ (pc = "batch" /\ job.kind = "symlink") => warned' = warned
       /\ (UnitRuns /\ job.kind = "symlink") =>
             LET w == UnitOp(World(WithoutIndex(fs), env'.k), job, users[idx], dryRun, now)
             IN /\ pending' = OutcomeOf(w)
                /\ trace' = w.tr
                /\ SameButIndex(fs', w.fs)]_vars

C15_Witness ==
    /\ pc = "batch"
    /\ job.kind = "symlink"
    /\ warned = <<job.filename>>
    /\ ListedAsWorld(fs, job.filename)
    /\ inflight
    /\ \E i \in DOMAIN trace : trace[i].op = "symlink"

\* C16: no lorebook filename is at once a symbolic link made by the tool in
\* a user's worlds directory and an entry of type 'world' in the scaffold
\* index.
C16_NoLinkListedAsWorld ==
    \A h \in Range(Handles), filename \in EditorNames :
        ~(/\ isSymbolicLink(fs, join(userWorldsDir(dataRoot, h), <<filename>>))
          /\ ListedAsWorld(fs, filename))

(***************************************************************************)
(* The Document Mutator (SpecMerge) and the Index Repository (SpecIndex).  *)
(***************************************************************************)
\* The objects reachable from an address.
RECURSIVE Reach(_, _)
Reach(h, a) == {a} \cup UNION {Reach(h, h[a].kids[i].v) : i \in DOMAIN h[a].kids}

\* Every object reachable from a in h is the same object in g.
Intact(h, g, a) == \A x \in Reach(h, a) : x \in DOMAIN g /\ g[x] = h[x]

LibCall(fns) == Len(mem'.log) = Len(mem.log) + 1 /\ mem'.fn \in fns

\* The objects of D's charLore records.
CharLoreRecordsAt(h, settings) ==
    LET list == lodashGetAt(h, settings, CHARLORE_PATH)
    IN IF list = 0 THEN {} ELSE UNION {Reach(h, h[list].kids[i].v) : i \in DOMAIN h[list].kids}

\* C17: applyMutations(D, M) and syncSections(D, T, P) return a new tree and
\* leave D and T as they were, object by object (hence deep-equal); the tree
\* returned shares no object with D or T, so no later change to it shows
\* through them; in the charLore upsert, whose directive carries D's own
\* records, the tree returned shares those records and nothing else.  The
\* tree returned is the one the model of the unit-operations computes.
C17_MergeLeavesInputsIntact ==
    [][LibCall({"applyMutations", "syncSections", "addCharLore"}) =>
          /\ Intact(mem.heap, mem'.heap, mem.cur)
          /\ Intact(mem.heap, mem'.heap, mem.tpl)
          /\ JSONstringify(mem'.heap, mem.cur) = JSONstringify(mem.heap, mem.cur)
          /\ JSONstringify(mem'.heap, mem.tpl) = JSONstringify(mem.heap, mem.tpl)
          /\ mem'.doc = mem.cur
          /\ mem'.out \notin DOMAIN mem.heap
          /\ Reach(mem'.heap, mem'.out) \cap Reach(mem'.heap, mem.tpl) = {}
          /\ Reach(mem'.heap, mem'.out) \cap Reach(mem'.heap, mem.cur)
                \subseteq (IF mem'.fn = "addCharLore"
                           THEN CharLoreRecordsAt(mem.heap, mem.cur) ELSE {})
          /\ mem'.fn = "applyMutations" =>
                JSONstringify(mem'.heap, mem'.out) =
                   applyMutations(JSONstringify(mem.heap, mem.cur), mem'.args.mutations)
          /\ mem'.fn = "syncSections" =>
                JSONstringify(mem'.heap, mem'.out) =
                   syncSections(JSONstringify(mem.heap, mem.cur),
                                JSONstringify(mem.heap, mem.tpl), mem'.args.keys)]_vars

C17_Witness ==
    /\ mem.fn = "applyMutations"
    /\ Len(mem.args.mutations) = 2
    /\ JSONstringify(mem.heap, mem.out) # JSONstringify(mem.heap, mem.doc)
    /\ mem.out # mem.doc

\* The charLore list of a document.
CharLoreOf(val) == ArrayOrEmpty(lodashGet(val, CHARLORE_PATH, JArr(<<>>)))

NamedAs(list, name) == {i \in DOMAIN list : Prop(list[i].v, "name") = name}

NotNamedAs(list, name) == SelectSeq(list, LAMBDA e : Prop(e.v, "name") # name)

\* C18: the charLore upsert leaves exactly one record with the new record's
\* name, the new record itself, in last place, and the other records in
\* their order; so a second upsert for the name leaves one record, holding
\* the second payload.
C18_UpsertKeepsOnePerName ==
    [][LibCall({"addCharLore"}) =>
          LET entry == mem'.args.entry
              name == Prop(entry, "name")
              before == CharLoreOf(JSONstringify(mem.heap, mem.cur))
              after == CharLoreOf(JSONstringify(mem'.heap, mem'.out))
          IN /\ NamedAs(after, name) = {Len(after)}
             /\ after[Len(after)].v = entry
             /\ NotNamedAs(after, name) = NotNamedAs(before, name)
             /\ JSONstringify(mem'.heap, mem'.out) =
                   EditCharLore(JSONstringify(mem.heap, mem.cur),
                                [NoJob EXCEPT !.key = CHARLORE_PATH, !.entry = entry])]_vars

C18_Witness ==
    /\ mem.log = <<"addCharLore", "addCharLore">>
    /\ LET before == CharLoreOf(JSONstringify(mem.heap, mem.doc))
           after == CharLoreOf(JSONstringify(mem.heap, mem.out))
       IN /\ Len(before) = 2
          /\ before[2].v = CharLore("X", "L1")
          /\ mem.args.entry = CharLore("X", "L2")
          /\ after = <<before[1], Elem(CharLore("X", "L2"))>>

\* The member names (for an array, the positions) that lead into a value.
KeyOf(val, i) == IF val.t = "arr" THEN ToString(i) ELSE val.kids[i].k

RECURSIVE Paths(_)
Paths(val) ==
    UNION {{<<KeyOf(val, i)>>} \cup {<<KeyOf(val, i)>> \o q : q \in Paths(val.kids[i].v)} :
              i \in DOMAIN val.kids}

RECURSIVE PartAt(_, _)
PartAt(val, q) ==
    IF q = <<>> THEN val
    ELSE IF \E i \in DOMAIN val.kids : KeyOf(val, i) = Head(q)
    THEN PartAt(val.kids[CHOOSE i \in DOMAIN val.kids : KeyOf(val, i) = Head(q)].v, Tail(q))
    ELSE Undefined

IsPrefix(p, q) == Len(p) <= Len(q) /\ SubSeq(q, 1, Len(p)) = p

\* Two documents agree on every part that is neither on the way to p nor
\* beneath p.
SameOutside(a, b, p) ==
    \A q \in Paths(a) \cup Paths(b) :
        (~IsPrefix(q, p) /\ ~IsPrefix(p, q)) => PartAt(a, q) = PartAt(b, q)

\* C19: syncSections(D, T, [p]) holds a copy of T's value at p, in place of
\* whatever D had there, when T has a value at p; it is deep-equal to D when
\* T has none; outside p it equals D in both cases.
C19_SyncOnePath ==
    [][(LibCall({"syncSections"}) /\ Len(mem'.args.keys) = 1) =>
          LET p == mem'.args.keys[1]
              templateValue == lodashGetAt(mem.heap, mem.tpl, p)
              held == lodashGetAt(mem'.heap, mem'.out, p)
              D == JSONstringify(mem.heap, mem.cur)
              R == JSONstringify(mem'.heap, mem'.out)
          IN /\ templateValue # 0 =>
                   /\ held # 0
                   /\ JSONstringify(mem'.heap, held) = JSONstringify(mem.heap, templateValue)
                   /\ Reach(mem'.heap, held) \cap Reach(mem'.heap, mem.tpl) = {}
             /\ templateValue = 0 => R = D
             /\ SameOutside(R, D, p)]_vars

C19_Witness ==
    /\ mem.fn = "syncSections"
    /\ mem.args.keys = <<<<"world_info", "globalSelect">>>>
    /\ JSONstringify(mem.heap, mem.out) # JSONstringify(mem.heap, mem.doc)
    /\ PartAt(JSONstringify(mem.heap, mem.out), <<"world_info", "globalSelect">>)
          = JArr(<<Elem(JStr("G"))>>)
    /\ PartAt(JSONstringify(mem.heap, mem.doc), <<"world_info", "globalSelect">>)
          = JArr(<<Elem(JStr("A"))>>)

\* The records of a collection.
RecordsAt(h, a) == JSONstringify(h, a).kids

FilenameOf(e) == Prop(e.v, "filename")

\* C20: addEntry returns the collection unchanged when the filename is
\* present and appends the record otherwise; removeEntries drops exactly the
\* records whose filename is listed and keeps the others in order; neither
\* changes its input array; adding a record twice to the empty collection
\* and removing its filename gives the empty collection.
C20_AddAndRemoveEntries ==
    [][/\ LibCall({"addEntry"}) =>
             LET before == RecordsAt(mem.heap, mem.index)
                 after == RecordsAt(mem'.heap, mem'.out)
                 r == Elem(mem'.args.entry)
             IN /\ IF \E i \in DOMAIN before : FilenameOf(before[i]) = FilenameOf(r)
                   THEN after = before /\ mem'.out = mem.index
                   ELSE after = Append(before, r)
                /\ Intact(mem.heap, mem'.heap, mem.index)
                /\ after = addEntry(before, r)
       /\ LibCall({"removeEntries"}) =>
             LET before == RecordsAt(mem.heap, mem.index)
                 after == RecordsAt(mem'.heap, mem'.out)
                 kept == {i \in DOMAIN before :
                             FilenameOf(before[i]) \notin {JStr(n) : n \in mem'.args.filenames}}
             IN /\ Len(after) = Cardinality(kept)
                /\ \A k \in DOMAIN after :
                      after[k] = before[CHOOSE i \in kept :
                                           Cardinality({j \in kept : j <= i}) = k]
                /\ Intact(mem.heap, mem'.heap, mem.index)
                /\ after = removeEntries(before, mem'.args.filenames)
       /\ \A r \in LibRecords :
             removeEntries(addEntry(addEntry(<<>>, Elem(r)), Elem(r)),
                           {Prop(r, "filename").s}) = <<>>]_vars

C20_Witness ==
    /\ mem.log = <<"addEntry", "addEntry", "removeEntries">>
    /\ Len(RecordsAt(mem.heap, mem.doc)) = 1
    /\ FilenameOf(RecordsAt(mem.heap, mem.doc)[1]) \in {JStr(n) : n \in mem.args.filenames}
    /\ RecordsAt(mem.heap, mem.out) = <<>>

\* The member names of a record.
KeysOf(val) == {val.kids[i].k : i \in DOMAIN val.kids}

\* C21: updateEntry(collection, filename, patch) returns a collection of
\* the same length and order in which a record whose filename matches holds
\* the patch's value under every key of the patch and its own value under
\* every other key of its own, and nothing else; every other record is the
\* very record of the input; when no record matches, the collection returned
\* equals the input, no record being inserted; the input is left as it was.
C21_UpdateMergesOneRecord ==
    [][LibCall({"updateEntry"}) =>
          LET before == RecordsAt(mem.heap, mem.index)
              after == RecordsAt(mem'.heap, mem'.out)
              patch == mem'.args.updates
              matches == {i \in DOMAIN before : FilenameOf(before[i]) = JStr(mem'.args.filename)}
          IN /\ Len(after) = Len(before)
             /\ \A i \in matches :
                   /\ KeysOf(after[i].v) = KeysOf(before[i].v) \cup KeysOf(patch)
                   /\ \A key \in KeysOf(patch) : Prop(after[i].v, key) = Prop(patch, key)
                   /\ \A key \in KeysOf(before[i].v) \ KeysOf(patch) :
                         Prop(after[i].v, key) = Prop(before[i].v, key)
             /\ \A i \in DOMAIN before \ matches :
                   /\ after[i] = before[i]
                   /\ elementsAt(mem'.heap, mem'.out)[i] = elementsAt(mem.heap, mem.index)[i]
             /\ matches = {} => after = before
             /\ Intact(mem.heap, mem'.heap, mem.index)
             /\ after = updateEntry(before, mem'.args.filename, patch.kids)]_vars

\* A record matched: it kept its place and its filename, took the patch's
\* type in the type's place and gained the new field last; its neighbour stayed.
C21_Witness ==
    /\ mem.fn = "updateEntry"
    /\ mem.args.filename = "a"
    /\ mem.args.updates = JObj(<<Member("note", JStr("n")), Member("type", JStr("world"))>>)
    /\ RecordsAt(mem.heap, mem.doc) = <<IndexEntry("a", "world"), IndexEntry("b", "character")>>
    /\ RecordsAt(mem.heap, mem.out) =
          <<Elem(JObj(<<Member("filename", JStr("a")), Member("type", JStr("world")),
                        Member("note", JStr("n"))>>)),
            IndexEntry("b", "character")>>

\* The filenames of a collection are pairwise distinct.
DistinctFilenames(index) ==
    \A i, j \in DOMAIN index : FilenameOf(index[i]) = FilenameOf(index[j]) => i = j

\* C22: the filenames of a collection stay pairwise distinct: of the
\* collection the scaffold editor holds, of the index file it writes, and of
\* the collection a sequence of addEntry, removeEntries and updateEntry
\* calls has produced.
C22_FilenamesStayDistinct ==
    /\ DistinctFilenames(edIndex)
    /\ DistinctFilenames(readIndex(fs, scaffoldIndexPath(scaffoldDir)))
    /\ mem.index # 0 => DistinctFilenames(RecordsAt(mem.heap, mem.index))

(***************************************************************************)
(* parseValue (SpecParse).                                                 *)
(***************************************************************************)
\* The value a call returned.
Out == JSONstringify(mem.heap, mem.out)

\* C23: parseValue never throws and classifies the trimmed text in this
\* order: true and false give the booleans, null gives null, an integer or
\* decimal with an optional minus gives a number, a text between matching
\* braces or brackets that JSON.parse accepts gives the object or array
\* parsed, and any other text, malformed bracketed text included, gives the
\* trimmed text as a string.
C23_ParseValueClassifies ==
    [][LibCall({"parseValue"}) =>
          LET input == mem'.args.input
              t == trim(input)
              out == JSONstringify(mem'.heap, mem'.out)
              literal == t \in {<<"t", "r", "u", "e">>, <<"f", "a", "l", "s", "e">>, <<"n", "u", "l", "l">>}
              json == /\ (Head(t) = "{" /\ t[Len(t)] = "}") \/ (Head(t) = "[" /\ t[Len(t)] = "]")
                      /\ JSONparseText(t).ok
          IN /\ ~mem'.threw
             /\ t = <<"t", "r", "u", "e">> => out = JBool(TRUE)
             /\ t = <<"f", "a", "l", "s", "e">> => out = JBool(FALSE)
             /\ t = <<"n", "u", "l", "l">> => out = JNull
             /\ (~literal /\ testNumber(t)) => out.t = "num"
             /\ (~literal /\ ~testNumber(t) /\ t # <<>> /\ json) =>
                   out = JSONparseText(t).val /\ out.t \in {"obj", "arr"}
             /\ (~literal /\ ~testNumber(t) /\ ~(t # <<>> /\ json)) => out = JStr(StringOf(t))
             /\ input = <<"4", "2">> => out = JNum("42")
             /\ input = <<"-", "0", ".", "5", "0">> => out = JNum("-0.5")
             /\ input = <<"[", "1", ",", "2", "]">> => out = JArr(<<Elem(JNum("1")), Elem(JNum("2"))>>)
             /\ input = <<"[", "1", ",", "2">> => out = JStr("[1,2")
             /\ input = <<"{", "\"", "a", "\"", ":", "[", "t", "r", "u", "e", ",", "n", "u", "l", "l", "]", "}">> => out = JObj(<<Member("a", JArr(<<Elem(JBool(TRUE)), Elem(JNull)>>))>>)
             /\ input = <<"1", "e", "5">> => out = JStr("1e5")]_vars

\* Malformed bracketed text came back as the string it is.
C23_Witness ==
    /\ mem.fn = "parseValue"
    /\ mem.args.input = <<"[", "1", ",", "2">>
    /\ ~mem.threw
    /\ Out = JStr("[1,2")

(***************************************************************************)
(* Cancellation of a running batch (SpecCancel).                           *)
(***************************************************************************)
\* The units the report covers, in the order they were recorded.
Reported(res) ==
    {res.success[i] : i \in DOMAIN res.success}
        \cup {res.skipped[i].handle : i \in DOMAIN res.skipped}
        \cup {res.failed[i].handle : i \in DOMAIN res.failed}

\* C24: a batch the operator cancels ends with its report: when the program
\* has stopped, no unit-operation is in flight, batchOperation has returned,
\* and its report covers exactly the units it called.
C24_CancelledBatchReports ==
    pc = "exited" =>
        /\ ~inflight
        /\ ret = "returned"
        /\ Reported(results) = Range(calls)

(***************************************************************************)
(* Cancelled prompts (SpecPrompt).                                         *)
(***************************************************************************)
\* C25: once a prompt of a module run has returned the cancel symbol, that
\* run changes nothing on the filesystem and surfaces no error (the flag is
\* lowered when the next module run opens its first prompt).
C25_CancelledRunDoesNothingFurther ==
    [][dialog.cancelled =>
          \/ dialog'.cancelled = FALSE
          \/ /\ fs' = fs
             /\ ret' # "threw"]_vars

(***************************************************************************)
(* Idempotence of the settings edits (SpecMerge).                          *)
(***************************************************************************)
\* The document a settings edit gives, computed on values.
EditOf(val, fn, args) ==
    CASE fn = "applyMutations" -> applyMutations(val, args.mutations)
      [] fn = "syncSections" ->
            syncSections(val, JSONstringify(mem.heap, mem.tpl), args.keys)
      [] fn = "addCharLore" ->
            EditCharLore(val, [NoJob EXCEPT !.key = CHARLORE_PATH, !.entry = args.entry])
      [] fn = "linkLorebook" ->
            EditLorebook(val, [NoJob EXCEPT !.key = args.key, !.name = args.name])

\* C26: a settings edit applied a second time, to the document its first
\* application gave, gives that document again: a directive list, a section
\* sync, a charLore upsert, a lorebook link (no name is added that the list
\* already holds).
C26_SettingsEditsAreIdempotent ==
    [][LibCall({"applyMutations", "syncSections", "addCharLore", "linkLorebook"}) =>
          LET first == JSONstringify(mem'.heap, mem'.out)
          IN /\ (mem'.fn = mem.fn /\ mem'.args = mem.args /\ mem.log # <<>>) =>
                   first = JSONstringify(mem.heap, mem.out)
             /\ first = EditOf(JSONstringify(mem.heap, mem.cur), mem'.fn, mem'.args)
             /\ EditOf(first, mem'.fn, mem'.args) = first
             /\ mem'.fn = "linkLorebook" =>
                   LET before == lodashGet(JSONstringify(mem.heap, mem.cur),
                                           mem'.args.key, JArr(<<>>))
                       held == /\ before.t = "arr"
                               /\ \E i \in DOMAIN before.kids :
                                     before.kids[i].v = JStr(mem'.args.name)
                   IN held => lodashGet(first, mem'.args.key, JArr(<<>>)) = before]_vars

\* The same link was applied twice; the first added the name, the second
\* changed nothing.
C26_Witness ==
    /\ mem.log = <<"linkLorebook", "linkLorebook">>
    /\ mem.args.name = "N"
    /\ mem.args.key = <<"world_info", "globalSelect">>
    /\ JSONstringify(mem.heap, mem.out) = JSONstringify(mem.heap, mem.doc)
    /\ PartAt(JSONstringify(mem.heap, mem.out), <<"world_info", "globalSelect">>)
          = JArr(<<Elem(JStr("A")), Elem(JStr("N"))>>)

(***************************************************************************)
(* The backup-before-write protocol in the unit-operations (Spec).         *)
(***************************************************************************)
\* The file of the unit that the unit-operation overwrites or removes.
UnitFile(j, h) ==
    CASE j.kind \in SettingsKinds -> userSettingsPath(dataRoot, h)
      [] j.kind = "reset-log" -> userContentLogPath(dataRoot, h)
      [] j.kind = "symlink" -> join(userWorldsDir(dataRoot, h), <<j.filename>>)
      [] OTHER -> NoPath

\* A real run of a bulk settings unit, of a content-log reset unit, or of a
\* symlink unit under replace-all with an ordinary file at the target.
ProtectedUnit ==
    /\ UnitRuns
    /\ ~dryRun
    /\ \/ job.kind \in SettingsKinds \cup {"reset-log"}
       \/ /\ job.kind = "symlink"
          /\ job.policy = "all"
          /\ Kind(fs, UnitFile(job, users[idx])) = "file"

\* The i-th call of the step wrote a file into the unit's snapshot area.
StoresSnapshot(tr, i, h) ==
    tr[i].op = "write" /\ dirname(tr[i].path) = SnapshotArea(dataRoot, h)

\* C27: in a real run of a bulk settings operation, of the content-log
\* reset and of the symlink batch under replace-all with an ordinary file at
\* the target, the unit's file is overwritten or removed only after the
\* Snapshot Store was called on it and a snapshot holding its content from
\* before the write was stored in the unit's backups/admin-snapshots area, in
\* the same unit-operation; when the snapshot throws, the file is unchanged
\* and the unit is recorded as failed.
C27_SnapshotPrecedesUnitWrite ==
    [][/\ ProtectedUnit =>
             LET h == users[idx]
                 f == UnitFile(job, h)
                 stored == {i \in DOMAIN trace' : StoresSnapshot(trace', i, h)}
             IN /\ \A i \in DOMAIN trace' :
                      (trace'[i].path = f /\ trace'[i].op \in {"write", "unlink"}) =>
                         \E c \in DOMAIN trace', j \in stored :
                            /\ c < j /\ j < i
                            /\ trace'[c] = Event("snapshot", f, Kind(fs, f))
                            /\ lstatExists(fs', trace'[j].path)
                            /\ fs'[trace'[j].path] = File(ReadText(fs, f))
                /\ (pending'.k = "throw" /\ stored = {}
                      /\ \E c \in DOMAIN trace' : trace'[c].op = "snapshot") =>
                      /\ lstatExists(fs', f)
                      /\ fs'[f] = fs[f]
       /\ (pc = "batch" /\ inflight /\ ~inflight' /\ pending.k = "throw") =>
             InList(results'.failed, users[idx])]_vars

\* A content-log reset has removed a user's content.log, and the user's
\* snapshot area holds a copy of it.
C27_Witness ==
    /\ job.kind = "reset-log"
    /\ pc = "batch"
    /\ inflight
    /\ pending = Success
    /\ ~lstatExists(fs, userContentLogPath(dataRoot, users[idx]))
    /\ \E p \in DOMAIN fs :
          /\ dirname(p) = SnapshotArea(dataRoot, users[idx])
          /\ fs[p] = fs0[userContentLogPath(dataRoot, users[idx])]

(***************************************************************************)
(* applyMutations: last write wins (SpecMerge).                            *)
(***************************************************************************)
\* A later directive writes the i-th directive's path, a prefix of it or a
\* path beneath it.
Overwritten(mutations, i) ==
    \E j \in (i + 1)..Len(mutations) :
        \/ IsPrefix(mutations[j].path, mutations[i].path)
        \/ IsPrefix(mutations[i].path, mutations[j].path)

\* q is neither on the way to a written path nor beneath one.
OffWrittenPaths(mutations, q) ==
    \A i \in DOMAIN mutations :
        ~IsPrefix(q, mutations[i].path) /\ ~IsPrefix(mutations[i].path, q)

\* C28: applyMutations applies the directives in order, the last write
\* winning: the result holds each directive's value at its path unless a
\* later directive writes that path, a prefix of it or a path beneath it;
\* the containers on the way are created, whatever the path held (a string,
\* an array, an object, nothing) is replaced, and every part of the document
\* off the written paths is as in the input.
C28_LastWriteWins ==
    [][LibCall({"applyMutations"}) =>
          LET mutations == mem'.args.mutations
              D == JSONstringify(mem.heap, mem.cur)
              R == JSONstringify(mem'.heap, mem'.out)
          IN /\ \A i \in DOMAIN mutations :
                   ~Overwritten(mutations, i) =>
                      LET held == lodashGetAt(mem'.heap, mem'.out, mutations[i].path)
                      IN /\ held # 0
                         /\ JSONstringify(mem'.heap, held) = mutations[i].value
             /\ \A q \in Paths(D) \cup Paths(R) :
                   OffWrittenPaths(mutations, q) => PartAt(R, q) = PartAt(D, q)]_vars

\* Two directives were applied to a document in which the first path runs
\* through a string and the second holds an array: a container was created
\* for the first, the array was replaced by null, and the rest is as before.
C28_Witness ==
    /\ mem.fn = "applyMutations"
    /\ Len(mem.args.mutations) = 2
    /\ LET D == JSONstringify(mem.heap, mem.doc)
           R == JSONstringify(mem.heap, mem.out)
       IN /\ PartAt(D, <<"world_info_settings">>) = JStr("none")
          /\ PartAt(D, <<"theme">>).t = "arr"
          /\ PartAt(R, <<"world_info_settings">>) = JObj(<<Member("mode", JNum("1"))>>)
          /\ PartAt(R, <<"theme">>) = JNull
          /\ PartAt(R, <<"world_info">>) = PartAt(D, <<"world_info">>)

(***************************************************************************)
(* syncSections on a list of paths (SpecMerge).                            *)
(***************************************************************************)
\* The value lodash.get finds at a path of the document at an address.
ValueAt(h, a, p) ==
    IF lodashGetAt(h, a, p) = 0 THEN Undefined
    ELSE JSONstringify(h, lodashGetAt(h, a, p))

\* C29: syncSections processes the paths of its list independently: at each
\* listed path the result holds what syncing that path alone gives there
\* (also when one listed path is a prefix of another), and every order of
\* the list gives the same result.
C29_PathsAreIndependent ==
    [][LibCall({"syncSections"}) =>
          LET keys == mem'.args.keys
          IN /\ \A i \in DOMAIN keys :
                   LET alone == syncSectionsAt(mem.heap, mem.cur, mem.tpl, <<keys[i]>>)
                   IN ValueAt(mem'.heap, mem'.out, keys[i])
                         = ValueAt(alone.heap, alone.at, keys[i])
             /\ \A other \in {o \in Perms(Range(keys)) : Len(o) = Len(keys)} :
                   LET r == syncSectionsAt(mem.heap, mem.cur, mem.tpl, other)
                   IN JSONstringify(r.heap, r.at) = JSONstringify(mem'.heap, mem'.out)]_vars

(***************************************************************************)
(* The shared index file and the centralized snapshot area (Spec).         *)
(***************************************************************************)
\* The centralized index file, or a path of the centralized snapshot area.
Centralized(p) ==
    \/ p \in {scaffoldIndexPath(scaffoldDir), scaffoldIndexPath(contentDir)}
    \/ p = backupRoot
    \/ Beneath(p, backupRoot)

\* C30: in every batch the centralized index file and the centralized
\* snapshot area are written outside the per-unit loop only, and at most
\* once: no unit-operation of any batch (the bulk backup operations
\* included) makes a mutating call on either, and the step that starts a
\* batch writes the index file at most once.
C30_UnitsLeaveCentralizedAlone ==
    [][/\ UnitRuns =>
             \A i \in DOMAIN trace' :
                Mutating(trace'[i]) => ~Centralized(trace'[i].path)
       /\ (pc = "menu" /\ pc' = "batch") =>
             Cardinality({i \in DOMAIN trace' :
                             /\ trace'[i].op = "write"
                             /\ trace'[i].path = scaffoldIndexPath(scaffoldDir)}) <= 1]_vars

====
